---- MODULE Spec2Model ----
(***************************************************************************)
(* Migration engine of FDML (src/src/migration/runner.rs).                 *)
(*                                                                         *)
(* The model covers the MigrationRunner: loading the migration directory,  *)
(* dependency resolution, validation and execution of operations against   *)
(* the in-memory FdmlDocument, backups, the target document file and the   *)
(* state file.  One action models one public call of the runner.           *)
(*                                                                         *)
(* Strings that the code inspects character by character (operation        *)
(* fields, which validate_operation trims) are sequences of one-character  *)
(* strings.  Migration ids are only compared, so they are TLA+ strings.    *)
(* Option<T> is a sequence of length at most one: None is <<>>, Some(x) is *)
(* <<x>>.  Result<T> is a record [ok, val, err].                           *)
(***************************************************************************)
EXTENDS Integers, Sequences, FiniteSets, TLC

None == <<>>

Some(x) == <<x>>

IsSome(o) == o # <<>>

Unwrap(o) == o[1]

Ok(v) == [ok |-> TRUE, val |-> v, err |-> "", about |-> <<>>]

\* about: the id the error names, a sequence (an operation field, or <<migration id>>)
Err(kind, about) == [ok |-> FALSE, val |-> <<>>, err |-> kind, about |-> about]

Range(s) == {s[i] : i \in 1..Len(s)}

Contains(s, x) == \E i \in 1..Len(s) : s[i] = x

Last(s) == IF Len(s) = 0 THEN None ELSE Some(s[Len(s)])

\* mutant: the position of the last element whose id is id
FindById_last(s, id) ==
    IF \E i \in 1..Len(s) : s[i].id = id
    THEN CHOOSE i \in 1..Len(s) : s[i].id = id /\ \A j \in (i + 1)..Len(s) : s[j].id # id
    ELSE 0

\* position of the first element whose id is id, 0 when there is none
\* (iter_mut().find(|e| e.id == *id))
FindById(s, id) ==
    IF \E i \in 1..Len(s) : s[i].id = id
    THEN CHOOSE i \in 1..Len(s) : s[i].id = id /\ \A j \in 1..(i - 1) : s[j].id # id
    ELSE 0

(***************************************************************************)
(* Strings as character sequences                                          *)
(***************************************************************************)
IsWhitespace(c) == c \in {" ", "\t", "\n"}

RECURSIVE TrimStart(_)
TrimStart(s) ==
    IF s = <<>> THEN <<>>
    ELSE IF IsWhitespace(Head(s)) THEN TrimStart(Tail(s)) ELSE s

RECURSIVE TrimEnd(_)
TrimEnd(s) ==
    IF s = <<>> THEN <<>>
    ELSE IF IsWhitespace(s[Len(s)]) THEN TrimEnd(SubSeq(s, 1, Len(s) - 1)) ELSE s

\* str::trim
Trim(s) == TrimEnd(TrimStart(s))

\* s.trim().is_empty()
TrimIsEmpty(s) == Trim(s) = <<>>

Digits == <<"1", "2", "3", "4", "5", "6", "7", "8", "9">>

\* format!("{}_scenario_{}", id, i + 1), i the zero-based index
ScenarioId(id, i) == id \o <<"_", "s", "c", "e", "n", "a", "r", "i", "o", "_">> \o <<Digits[i + 1]>>

(***************************************************************************)
(* The document (parser/ast.rs) and the operations                         *)
(***************************************************************************)
\* FdmlDocument::default(); `other` stands for metadata, system, flows,
\* constraints, traceability and generation_rules, which no operation touches
DefaultDocument == [entities |-> <<>>, actions |-> <<>>, features |-> <<>>, other |-> "default"]

\* the placeholder Scenario that AddFeature builds for the i-th (zero-based) title
PlaceholderScenario(id, i, scenario_title) ==
    [id |-> ScenarioId(id, i), title |-> scenario_title, description |-> None,
     given |-> <<"System is ready">>, when |-> <<"User performs action">>,
     then |-> <<"Expected outcome occurs">>]

\* serde_json::Value -> ast::Value of AddField's default
ConvertDefault(v) ==
    CASE v.t = "string" -> [t |-> "String", v |-> v.v]
      [] v.t = "number" -> [t |-> "Number", v |-> v.v]
      [] v.t = "bool" -> [t |-> "Boolean", v |-> v.v]
      [] OTHER -> [t |-> "String", v |-> <<"n", "u", "l", "l">>]

EntityStr == <<"e", "n", "t", "i", "t", "y">>

ActionStr == <<"a", "c", "t", "i", "o", "n">>

\* mutant: an attribute absent from changes is cleared
ApplyChanges_clears_absent(target, changes) ==
    [target EXCEPT !.name = changes.name, !.description = changes.description]

\* the attributes ModifyEntity / UpdateAction overwrite: only those present in changes
ApplyChanges(target, changes) ==
    [target EXCEPT !.name = IF IsSome(changes.name) THEN Some(Unwrap(changes.name)) ELSE @,
                   !.description = IF IsSome(changes.description)
                                   THEN Some(Unwrap(changes.description)) ELSE @]

\* mutant: RemoveFeature removes only the first feature with the id
execute_operation_removes_first(operation, document) ==
    CASE operation.type = "add_feature" ->
            LET titles == IF IsSome(operation.scenarios) THEN Unwrap(operation.scenarios) ELSE <<>>
                scenarios == [i \in 1..Len(titles) |->
                                 PlaceholderScenario(operation.id, i - 1, titles[i])]
                feature == [id |-> operation.id, title |-> operation.title,
                            description |-> operation.description, scenarios |-> scenarios,
                            acceptance_criteria |-> None, dependencies |-> None]
            IN Ok([document EXCEPT !.features = Append(@, feature)])
      [] operation.type = "remove_feature" ->
            LET i == FindById(document.features, operation.id)
            IN Ok([document EXCEPT !.features =
                      IF i = 0 THEN @ ELSE SubSeq(@, 1, i - 1) \o SubSeq(@, i + 1, Len(@))])
      [] operation.type = "modify_entity" ->
            LET i == FindById(document.entities, operation.id)
            IN IF i # 0
               THEN Ok([document EXCEPT !.entities[i] = ApplyChanges(@, operation.changes)])
               ELSE Err("Entity not found", operation.id)
      [] operation.type = "add_field" ->
            LET i == FindById(document.entities, operation.entity_id)
                field == [name |-> operation.field_name, field_type |-> operation.field_type,
                          description |-> Some("Field added by migration"),
                          required |-> operation.required,
                          default |-> IF IsSome(operation.default)
                                      THEN Some(ConvertDefault(Unwrap(operation.default)))
                                      ELSE None,
                          constraints |-> None]
            IN IF i # 0
               THEN Ok([document EXCEPT !.entities[i].fields = Append(@, field)])
               ELSE Err("Entity not found", operation.entity_id)
      [] operation.type = "remove_field" ->
            LET i == FindById(document.entities, operation.entity_id)
            IN IF i # 0
               THEN LET initial_count == Len(document.entities[i].fields)
                        kept == SelectSeq(document.entities[i].fields,
                                       LAMBDA f : f.name # operation.field_name)
                    IN IF Len(kept) = initial_count
                       THEN Err("Field not found", operation.field_name)
                       ELSE Ok([document EXCEPT !.entities[i].fields = kept])
               ELSE Err("Entity not found", operation.entity_id)
      [] operation.type = "update_action" ->
            LET i == FindById(document.actions, operation.id)
            IN IF i # 0
               THEN Ok([document EXCEPT !.actions[i] = ApplyChanges(@, operation.changes)])
               ELSE Err("Action not found", operation.id)
      [] operation.type = "change_validation" ->
            IF operation.target_type = EntityStr
            THEN IF FindById(document.entities, operation.target_id) # 0
                 THEN Ok(document)
                 ELSE Err("Entity not found", operation.target_id)
            ELSE IF operation.target_type = ActionStr
            THEN IF FindById(document.actions, operation.target_id) # 0
                 THEN Ok(document)
                 ELSE Err("Action not found", operation.target_id)
            ELSE Err("Unsupported target type for validation", operation.target_type)

\* mutant: RemoveField succeeds when the entity has no field of the name
execute_operation_removes_absent_field(operation, document) ==
    CASE operation.type = "add_feature" ->
            LET titles == IF IsSome(operation.scenarios) THEN Unwrap(operation.scenarios) ELSE <<>>
                scenarios == [i \in 1..Len(titles) |->
                                 PlaceholderScenario(operation.id, i - 1, titles[i])]
                feature == [id |-> operation.id, title |-> operation.title,
                            description |-> operation.description, scenarios |-> scenarios,
                            acceptance_criteria |-> None, dependencies |-> None]
            IN Ok([document EXCEPT !.features = Append(@, feature)])
      [] operation.type = "remove_feature" ->
            Ok([document EXCEPT !.features = SelectSeq(@, LAMBDA f : f.id # operation.id)])
      [] operation.type = "modify_entity" ->
            LET i == FindById(document.entities, operation.id)
            IN IF i # 0
               THEN Ok([document EXCEPT !.entities[i] = ApplyChanges(@, operation.changes)])
               ELSE Err("Entity not found", operation.id)
      [] operation.type = "add_field" ->
            LET i == FindById(document.entities, operation.entity_id)
                field == [name |-> operation.field_name, field_type |-> operation.field_type,
                          description |-> Some("Field added by migration"),
                          required |-> operation.required,
                          default |-> IF IsSome(operation.default)
                                      THEN Some(ConvertDefault(Unwrap(operation.default)))
                                      ELSE None,
                          constraints |-> None]
            IN IF i # 0
               THEN Ok([document EXCEPT !.entities[i].fields = Append(@, field)])
               ELSE Err("Entity not found", operation.entity_id)
      [] operation.type = "remove_field" ->
            LET i == FindById(document.entities, operation.entity_id)
            IN IF i # 0
               THEN LET kept == SelectSeq(document.entities[i].fields,
                                       LAMBDA f : f.name # operation.field_name)
                    IN Ok([document EXCEPT !.entities[i].fields = kept])
               ELSE Err("Entity not found", operation.entity_id)
      [] operation.type = "update_action" ->
            LET i == FindById(document.actions, operation.id)
            IN IF i # 0
               THEN Ok([document EXCEPT !.actions[i] = ApplyChanges(@, operation.changes)])
               ELSE Err("Action not found", operation.id)
      [] operation.type = "change_validation" ->
            IF operation.target_type = EntityStr
            THEN IF FindById(document.entities, operation.target_id) # 0
                 THEN Ok(document)
                 ELSE Err("Entity not found", operation.target_id)
            ELSE IF operation.target_type = ActionStr
            THEN IF FindById(document.actions, operation.target_id) # 0
                 THEN Ok(document)
                 ELSE Err("Action not found", operation.target_id)
            ELSE Err("Unsupported target type for validation", operation.target_type)

\* mutant: AddFeature replaces the features that have the id
execute_operation_replaces_feature(operation, document) ==
    CASE operation.type = "add_feature" ->
            LET titles == IF IsSome(operation.scenarios) THEN Unwrap(operation.scenarios) ELSE <<>>
                scenarios == [i \in 1..Len(titles) |->
                                 PlaceholderScenario(operation.id, i - 1, titles[i])]
                feature == [id |-> operation.id, title |-> operation.title,
                            description |-> operation.description, scenarios |-> scenarios,
                            acceptance_criteria |-> None, dependencies |-> None]
            IN Ok([document EXCEPT !.features =
                      Append(SelectSeq(@, LAMBDA f : f.id # operation.id), feature)])
      [] operation.type = "remove_feature" ->
            Ok([document EXCEPT !.features = SelectSeq(@, LAMBDA f : f.id # operation.id)])
      [] operation.type = "modify_entity" ->
            LET i == FindById(document.entities, operation.id)
            IN IF i # 0
               THEN Ok([document EXCEPT !.entities[i] = ApplyChanges(@, operation.changes)])
               ELSE Err("Entity not found", operation.id)
      [] operation.type = "add_field" ->
            LET i == FindById(document.entities, operation.entity_id)
                field == [name |-> operation.field_name, field_type |-> operation.field_type,
                          description |-> Some("Field added by migration"),
                          required |-> operation.required,
                          default |-> IF IsSome(operation.default)
                                      THEN Some(ConvertDefault(Unwrap(operation.default)))
                                      ELSE None,
                          constraints |-> None]
            IN IF i # 0
               THEN Ok([document EXCEPT !.entities[i].fields = Append(@, field)])
               ELSE Err("Entity not found", operation.entity_id)
      [] operation.type = "remove_field" ->
            LET i == FindById(document.entities, operation.entity_id)
            IN IF i # 0
               THEN LET initial_count == Len(document.entities[i].fields)
                        kept == SelectSeq(document.entities[i].fields,
                                       LAMBDA f : f.name # operation.field_name)
                    IN IF Len(kept) = initial_count
                       THEN Err("Field not found", operation.field_name)
                       ELSE Ok([document EXCEPT !.entities[i].fields = kept])
               ELSE Err("Entity not found", operation.entity_id)
      [] operation.type = "update_action" ->
            LET i == FindById(document.actions, operation.id)
            IN IF i # 0
               THEN Ok([document EXCEPT !.actions[i] = ApplyChanges(@, operation.changes)])
               ELSE Err("Action not found", operation.id)
      [] operation.type = "change_validation" ->
            IF operation.target_type = EntityStr
            THEN IF FindById(document.entities, operation.target_id) # 0
                 THEN Ok(document)
                 ELSE Err("Entity not found", operation.target_id)
            ELSE IF operation.target_type = ActionStr
            THEN IF FindById(document.actions, operation.target_id) # 0
                 THEN Ok(document)
                 ELSE Err("Action not found", operation.target_id)
            ELSE Err("Unsupported target type for validation", operation.target_type)

execute_operation(operation, document) ==
    CASE operation.type = "add_feature" ->
            LET titles == IF IsSome(operation.scenarios) THEN Unwrap(operation.scenarios) ELSE <<>>
                scenarios == [i \in 1..Len(titles) |->
                                 PlaceholderScenario(operation.id, i - 1, titles[i])]
                feature == [id |-> operation.id, title |-> operation.title,
                            description |-> operation.description, scenarios |-> scenarios,
                            acceptance_criteria |-> None, dependencies |-> None]
            IN Ok([document EXCEPT !.features = Append(@, feature)])
      [] operation.type = "remove_feature" ->
            Ok([document EXCEPT !.features = SelectSeq(@, LAMBDA f : f.id # operation.id)])
      [] operation.type = "modify_entity" ->
            LET i == FindById(document.entities, operation.id)
            IN IF i # 0
               THEN Ok([document EXCEPT !.entities[i] = ApplyChanges(@, operation.changes)])
               ELSE Err("Entity not found", operation.id)
      [] operation.type = "add_field" ->
            LET i == FindById(document.entities, operation.entity_id)
                field == [name |-> operation.field_name, field_type |-> operation.field_type,
                          description |-> Some("Field added by migration"),
                          required |-> operation.required,
                          default |-> IF IsSome(operation.default)
                                      THEN Some(ConvertDefault(Unwrap(operation.default)))
                                      ELSE None,
                          constraints |-> None]
            IN IF i # 0
               THEN Ok([document EXCEPT !.entities[i].fields = Append(@, field)])
               ELSE Err("Entity not found", operation.entity_id)
      [] operation.type = "remove_field" ->
            LET i == FindById(document.entities, operation.entity_id)
            IN IF i # 0
               THEN LET initial_count == Len(document.entities[i].fields)
                        kept == SelectSeq(document.entities[i].fields,
                                       LAMBDA f : f.name # operation.field_name)
                    IN IF Len(kept) = initial_count
                       THEN Err("Field not found", operation.field_name)
                       ELSE Ok([document EXCEPT !.entities[i].fields = kept])
               ELSE Err("Entity not found", operation.entity_id)
      [] operation.type = "update_action" ->
            LET i == FindById(document.actions, operation.id)
            IN IF i # 0
               THEN Ok([document EXCEPT !.actions[i] = ApplyChanges(@, operation.changes)])
               ELSE Err("Action not found", operation.id)
      [] operation.type = "change_validation" ->
            IF operation.target_type = EntityStr
            THEN IF FindById(document.entities, operation.target_id) # 0
                 THEN Ok(document)
                 ELSE Err("Entity not found", operation.target_id)
            ELSE IF operation.target_type = ActionStr
            THEN IF FindById(document.actions, operation.target_id) # 0
                 THEN Ok(document)
                 ELSE Err("Action not found", operation.target_id)
            ELSE Err("Unsupported target type for validation", operation.target_type)

validate_operation(operation) ==
    CASE operation.type = "add_feature" ->
            IF TrimIsEmpty(operation.id) \/ TrimIsEmpty(operation.title)
            THEN Err("AddFeature operation requires non-empty id and title", <<>>)
            ELSE Ok(<<>>)
      [] operation.type = "remove_feature" ->
            IF TrimIsEmpty(operation.id)
            THEN Err("RemoveFeature operation requires non-empty id", <<>>)
            ELSE Ok(<<>>)
      [] operation.type = "add_field" ->
            IF TrimIsEmpty(operation.entity_id) \/ TrimIsEmpty(operation.field_name)
               \/ TrimIsEmpty(operation.field_type)
            THEN Err("AddField operation requires non-empty entity_id, field_name, and field_type", <<>>)
            ELSE Ok(<<>>)
      [] operation.type = "remove_field" ->
            IF TrimIsEmpty(operation.entity_id) \/ TrimIsEmpty(operation.field_name)
            THEN Err("RemoveField operation requires non-empty entity_id and field_name", <<>>)
            ELSE Ok(<<>>)
      [] OTHER -> Ok(<<>>)

(***************************************************************************)
(* Dependency resolution                                                    *)
(***************************************************************************)
\* Option<Vec<String>> dependencies of a loaded migration, <<>> when the id is
\* not a key of the map or the option is None
DepsOf(migration_id, migrations) ==
    IF migration_id \in DOMAIN migrations /\ IsSome(migrations[migration_id].dependencies)
    THEN Unwrap(migrations[migration_id].dependencies)
    ELSE <<>>

\* traversal state: resolved (Vec), visited and visiting (HashSet), and the
\* error a `?` propagates (None while the traversal is running)
NewTraversal == [resolved |-> <<>>, visited |-> {}, visiting |-> {}, err |-> None, expanded |-> <<>>]

RECURSIVE visit_migration_deps(_, _, _)
RECURSIVE VisitEach(_, _, _)
\* the `for dep_id in dependencies` loop, and the loop over pending ids
VisitEach(ids, migrations, t) ==
    IF ids = <<>> \/ IsSome(t.err) THEN t
    ELSE VisitEach(Tail(ids), migrations, visit_migration_deps(Head(ids), migrations, t))

\* mutant: the id is pushed to resolved before its dependencies are visited
visit_migration_deps_preorder(migration_id, migrations, t) ==
    IF migration_id \in t.visited THEN t
    ELSE IF migration_id \in t.visiting
    THEN [t EXCEPT !.err = Some(migration_id)]
    ELSE LET t1 == [t EXCEPT !.visiting = @ \cup {migration_id},
                             !.expanded = Append(@, migration_id),
                             !.resolved = IF Contains(@, migration_id) THEN @
                                          ELSE Append(@, migration_id)]
             t2 == VisitEach(DepsOf(migration_id, migrations), migrations, t1)
         IN IF IsSome(t2.err) THEN t2
            ELSE [t2 EXCEPT !.visiting = @ \ {migration_id},
                            !.visited = @ \cup {migration_id}]

\* mutant: an id that is being visited is treated like a visited one
visit_migration_deps_no_cycle_check(migration_id, migrations, t) ==
    IF migration_id \in t.visited \/ migration_id \in t.visiting THEN t
    ELSE LET t1 == [t EXCEPT !.visiting = @ \cup {migration_id},
                             !.expanded = Append(@, migration_id)]
             t2 == VisitEach(DepsOf(migration_id, migrations), migrations, t1)
         IN [t2 EXCEPT !.visiting = @ \ {migration_id},
                       !.visited = @ \cup {migration_id},
                       !.resolved = IF Contains(@, migration_id) THEN @
                                    ELSE Append(@, migration_id)]

\* mutant: the visited set is not consulted
visit_migration_deps_revisits(migration_id, migrations, t) ==
    IF migration_id \in t.visiting
    THEN [t EXCEPT !.err = Some(migration_id)]
    ELSE LET t1 == [t EXCEPT !.visiting = @ \cup {migration_id},
                             !.expanded = Append(@, migration_id)]
             t2 == VisitEach(DepsOf(migration_id, migrations), migrations, t1)
         IN IF IsSome(t2.err) THEN t2
            ELSE [t2 EXCEPT !.visiting = @ \ {migration_id},
                            !.visited = @ \cup {migration_id},
                            !.resolved = IF Contains(@, migration_id) THEN @
                                         ELSE Append(@, migration_id)]

visit_migration_deps(migration_id, migrations, t) ==
    IF migration_id \in t.visited THEN t
    ELSE IF migration_id \in t.visiting
    THEN [t EXCEPT !.err = Some(migration_id)]
    ELSE LET t1 == [t EXCEPT !.visiting = @ \cup {migration_id},
                             !.expanded = Append(@, migration_id)]
             t2 == VisitEach(DepsOf(migration_id, migrations), migrations, t1)
         IN IF IsSome(t2.err) THEN t2
            ELSE [t2 EXCEPT !.visiting = @ \ {migration_id},
                            !.visited = @ \cup {migration_id},
                            !.resolved = IF Contains(@, migration_id) THEN @
                                         ELSE Append(@, migration_id)]

\* mutant: the resolved list is returned without the filter on the pending set
resolve_migration_dependencies_unfiltered(pending_migrations, migrations) ==
    LET t == VisitEach(pending_migrations, migrations, NewTraversal)
    IN IF IsSome(t.err)
       THEN Err("Circular dependency", t.err)
       ELSE Ok(t.resolved)

resolve_migration_dependencies(pending_migrations, migrations) ==
    LET t == VisitEach(pending_migrations, migrations, NewTraversal)
        pending_set == Range(pending_migrations)
    IN IF IsSome(t.err)
       THEN Err("Circular dependency", t.err)
       ELSE Ok(SelectSeq(t.resolved, LAMBDA id : id \in pending_set))

\* mutant: the applied ids are not filtered out
get_pending_migrations_unfiltered(migrations, state, keys) ==
    resolve_migration_dependencies(keys, migrations)

\* keys is the order in which migrations.keys() iterates the HashMap
get_pending_migrations(migrations, state, keys) ==
    LET pending == SelectSeq(keys, LAMBDA id : ~Contains(state.applied_migrations, id))
    IN resolve_migration_dependencies(pending, migrations)

\* every order in which a HashMap with this key set can be iterated
KeyOrders(migrations) ==
    {k \in [1..Cardinality(DOMAIN migrations) -> DOMAIN migrations] :
        \A i, j \in DOMAIN k : i # j => k[i] # k[j]}

(***************************************************************************)
(* Files.  A file is an Option of its content.  The target document file   *)
(* holds the YAML of a document, or what a failed write left of it: no     *)
(* bytes, or a prefix that does not parse.  The state file holds the JSON  *)
(* of a MigrationState, or bytes that do not parse.                        *)
(***************************************************************************)
\* serde_yaml::to_string(document)
Yaml(document) == [format |-> "yaml", doc |-> document]

EmptyContent == [format |-> "empty"]

Garbled == [format |-> "garbled"]

\* serde_json::to_string_pretty(&state)
Json(state) == [format |-> "json", state |-> state]

\* parser::parse_fdml_yaml: serde_yaml first, then the hand-written parser,
\* which returns the default document when there is no token at all
parse_fdml_yaml(content) ==
    CASE content.format = "yaml" -> Ok(content.doc)
      [] content.format = "empty" -> Ok(DefaultDocument)
      [] OTHER -> Err("Parser error", <<>>)

\* what a failing fs::write or fs::copy leaves at the destination
AfterFailedWrite(file, residue) ==
    CASE residue = "unchanged" -> file
      [] residue = "empty" -> Some(EmptyContent)
      [] OTHER -> Some(Garbled)

\* impl Default for MigrationState; created_at and updated_at are written and
\* never read by the runner, and are left out of the state record
DefaultMigrationState == [applied_migrations |-> <<>>, last_migration |-> None]

load_state(state_file) ==
    IF ~IsSome(state_file) THEN Ok(DefaultMigrationState)
    ELSE IF Unwrap(state_file).format = "json" THEN Ok(Unwrap(state_file).state)
    ELSE Err("Failed to parse migration state", <<>>)

\* self.load_state().unwrap_or_default()
LoadStateOrDefault(state_file) ==
    LET r == load_state(state_file)
    IN IF r.ok THEN r.val ELSE DefaultMigrationState

\* the migration directory: malformed when one of its .yaml files does not
\* deserialize; files maps each id to the migration of the file declaring it
load_migrations(migration_dir) ==
    IF ~migration_dir.exists THEN Ok(<<>>)
    ELSE IF migration_dir.malformed THEN Err("Failed to parse migration file", <<>>)
    ELSE Ok(migration_dir.files)

\* the backups directory: an Option of a function from backup name (the
\* timestamp, one-second resolution) to content
WithBackup(backup_dir, name, content) ==
    LET files == IF IsSome(backup_dir) THEN Unwrap(backup_dir) ELSE <<>>
    IN Some([n \in DOMAIN files \cup {name} |-> IF n = name THEN content ELSE files[n]])

\* mutant: a backup never takes the name of a file the directory holds
create_backup_fresh_name(has_target, target_file, backup_dir, now, fault, residue) ==
    IF has_target /\ IsSome(target_file)
    THEN [result |-> Ok(Some(now)),
          backup_dir |-> WithBackup(backup_dir,
                                    now + (IF IsSome(backup_dir)
                                           THEN Cardinality(DOMAIN Unwrap(backup_dir)) ELSE 0),
                                    Unwrap(target_file)),
          io |-> <<[ev |-> "backup", ok |-> TRUE]>>]
    ELSE [result |-> Ok(None), backup_dir |-> backup_dir, io |-> <<>>]

create_backup(has_target, target_file, backup_dir, now, fault, residue) ==
    IF has_target /\ IsSome(target_file)
    THEN IF fault = "backup"
         THEN [result |-> Err("IO error", <<>>),
               backup_dir |-> IF residue = "unchanged" THEN backup_dir
                              ELSE WithBackup(backup_dir, now, Unwrap(AfterFailedWrite(None, residue))),
               io |-> <<[ev |-> "backup", ok |-> FALSE]>>]
         ELSE [result |-> Ok(Some(now)),
               backup_dir |-> WithBackup(backup_dir, now, Unwrap(target_file)),
               io |-> <<[ev |-> "backup", ok |-> TRUE]>>]
    ELSE [result |-> Ok(None), backup_dir |-> backup_dir, io |-> <<>>]

\* mutant: a target file that does not exist is an error
load_target_document_requires_file(has_target, target_file) ==
    IF has_target /\ IsSome(target_file)
    THEN parse_fdml_yaml(Unwrap(target_file))
    ELSE IF has_target THEN Err("Target file not found", <<>>)
    ELSE Ok(DefaultDocument)

load_target_document(has_target, target_file) ==
    IF has_target /\ IsSome(target_file)
    THEN parse_fdml_yaml(Unwrap(target_file))
    ELSE Ok(DefaultDocument)

\* mutant: the document is written whether or not a target file is configured
save_target_document_always(has_target, document, target_file, fault, residue) ==
    IF fault = "doc_write"
    THEN [result |-> Err("IO error", <<>>),
          target_file |-> AfterFailedWrite(target_file, residue),
          io |-> <<[ev |-> "write_doc", ok |-> FALSE]>>]
    ELSE [result |-> Ok(<<>>), target_file |-> Some(Yaml(document)),
          io |-> <<[ev |-> "write_doc", ok |-> TRUE]>>]

save_target_document(has_target, document, target_file, fault, residue) ==
    IF has_target
    THEN IF fault = "doc_write"
         THEN [result |-> Err("IO error", <<>>),
               target_file |-> AfterFailedWrite(target_file, residue),
               io |-> <<[ev |-> "write_doc", ok |-> FALSE]>>]
         ELSE [result |-> Ok(<<>>), target_file |-> Some(Yaml(document)),
               io |-> <<[ev |-> "write_doc", ok |-> TRUE]>>]
    ELSE [result |-> Ok(<<>>), target_file |-> target_file, io |-> <<>>]

RECURSIVE PushMissing(_, _)
\* mutant: the missing ids are put in front of the list
PushMissing_front(list, applied) ==
    SelectSeq(applied, LAMBDA id : ~Contains(list, id)) \o list

\* mutant: the ids are pushed without looking for them in the list
PushMissing_unchecked(list, applied) == list \o applied

\* for id in applied { if !list.contains(id) { list.push(id) } }
PushMissing(list, applied) ==
    IF applied = <<>> THEN list
    ELSE PushMissing(IF Contains(list, Head(applied)) THEN list ELSE Append(list, Head(applied)),
                     Tail(applied))

RECURSIVE RemoveEach(_, _)
\* for id in rolled_back { list.retain(|x| x != id) }
RemoveEach(list, rolled_back) ==
    IF rolled_back = <<>> THEN list
    ELSE RemoveEach(SelectSeq(list, LAMBDA x : x # Head(rolled_back)), Tail(rolled_back))

WriteState(state, state_file, fault, residue) ==
    IF fault = "state_write"
    THEN [result |-> Err("IO error", <<>>),
          state_file |-> IF residue = "unchanged" THEN state_file ELSE Some(Garbled),
          io |-> <<[ev |-> "write_state", ok |-> FALSE]>>]
    ELSE [result |-> Ok(<<>>), state_file |-> Some(Json(state)),
          io |-> <<[ev |-> "write_state", ok |-> TRUE]>>]

\* mutant: last_migration is the first id of the batch
update_state_first_of_batch(applied, state_file, fault, residue) ==
    LET state == LoadStateOrDefault(state_file)
        state2 == [state EXCEPT !.applied_migrations = PushMissing(@, applied),
                                !.last_migration = IF applied = <<>> THEN None
                                                   ELSE Some(Head(applied))]
    IN WriteState(state2, state_file, fault, residue)

\* mutant: the first id of the batch is not recorded
update_state_skips_first(applied, state_file, fault, residue) ==
    LET state == LoadStateOrDefault(state_file)
        state2 == [state EXCEPT !.applied_migrations =
                                   PushMissing(@, IF applied = <<>> THEN <<>> ELSE Tail(applied)),
                                !.last_migration = Last(applied)]
    IN WriteState(state2, state_file, fault, residue)

update_state(applied, state_file, fault, residue) ==
    LET state == LoadStateOrDefault(state_file)
        state2 == [state EXCEPT !.applied_migrations = PushMissing(@, applied),
                                !.last_migration = Last(applied)]
    IN WriteState(state2, state_file, fault, residue)

remove_from_state(rolled_back, state_file, fault, residue) ==
    LET state == LoadStateOrDefault(state_file)
        list == RemoveEach(state.applied_migrations, rolled_back)
        state2 == [state EXCEPT !.applied_migrations = list,
                                !.last_migration = Last(list)]
    IN WriteState(state2, state_file, fault, residue)

(***************************************************************************)
(* The runner.  A call returns its Result, the files as it leaves them and *)
(* `io`, the trace of what it did to the file system and to the document,  *)
(* in order.                                                               *)
(***************************************************************************)
Reverse(s) == [i \in 1..Len(s) |-> s[Len(s) + 1 - i]]

\* the loop state after one operation returned res
Executed(operation, migration_id, io, res) ==
    [result |-> res,
     io |-> Append(io, [ev |-> "exec", migration |-> migration_id,
                        operation |-> operation, ok |-> res.ok])]

RECURSIVE ExecuteEach(_, _, _)
\* for operation in ops { self.execute_operation(operation, document)?; }
\* r.result is Ok(document so far) or the error that stopped the loop
ExecuteEach(ops, migration_id, r) ==
    IF ops = <<>> \/ ~r.result.ok THEN r
    ELSE ExecuteEach(Tail(ops), migration_id,
                     Executed(Head(ops), migration_id, r.io,
                              execute_operation(Head(ops), r.result.val)))

\* mutant: a failing operation does not stop the migration
apply_migration_ignoring_errors(migration, document) ==
    LET r == ExecuteEach(migration.up, migration.id, [result |-> Ok(document), io |-> <<>>])
    IN IF r.result.ok THEN r ELSE [result |-> Ok(document), io |-> r.io]

apply_migration(migration, document) ==
    ExecuteEach(migration.up, migration.id, [result |-> Ok(document), io |-> <<>>])

\* mutant: the down operations run from the first to the last
rollback_migration_forward(migration, document) ==
    ExecuteEach(migration.down, migration.id, [result |-> Ok(document), io |-> <<>>])

rollback_migration(migration, document) ==
    ExecuteEach(Reverse(migration.down), migration.id, [result |-> Ok(document), io |-> <<>>])

RECURSIVE ValidateEach(_)
\* for operation in &migration.down { self.validate_operation(operation)?; }
ValidateEach(ops) ==
    IF ops = <<>> THEN Ok(<<>>)
    ELSE IF ~validate_operation(Head(ops)).ok THEN validate_operation(Head(ops))
    ELSE ValidateEach(Tail(ops))

RECURSIVE VerifyEach(_, _)
VerifyEach(ids, migration_map) ==
    IF ids = <<>> THEN Ok(<<>>)
    ELSE IF Head(ids) \in DOMAIN migration_map
    THEN LET migration == migration_map[Head(ids)]
         IN IF migration.down = <<>>
            THEN Err("no down operations - rollback not possible", <<Head(ids)>>)
            ELSE IF ~ValidateEach(migration.down).ok THEN ValidateEach(migration.down)
            ELSE VerifyEach(Tail(ids), migration_map)
    ELSE Err("Migration not found", <<Head(ids)>>)

\* mutant: the down lists are not looked at
verify_rollback_safety_no_down_check(ids, migration_dir) ==
    LET migration_map == load_migrations(migration_dir)
    IN IF ~migration_map.ok THEN migration_map
       ELSE IF \A i \in 1..Len(ids) : ids[i] \in DOMAIN migration_map.val THEN Ok(<<>>)
       ELSE Err("Migration not found", <<>>)

\* mutant: a selected id without a loaded migration is passed over
verify_rollback_safety_skips_missing(ids, migration_dir) ==
    LET migration_map == load_migrations(migration_dir)
    IN IF ~migration_map.ok THEN migration_map
       ELSE VerifyEach(SelectSeq(ids, LAMBDA id : id \in DOMAIN migration_map.val),
                       migration_map.val)

verify_rollback_safety(ids, migration_dir) ==
    LET migration_map == load_migrations(migration_dir)
    IN IF ~migration_map.ok THEN migration_map ELSE VerifyEach(ids, migration_map.val)

\* the loop state after one migration returned x: the id is pushed when it succeeded
Ran(id, r, x) ==
    [result |-> x.result, io |-> r.io \o x.io,
     done |-> IF x.result.ok THEN Append(r.done, id) ELSE r.done]

RECURSIVE RunEach(_, _, _, _)
\* the loop over the selected migrations of apply_migrations (forward = TRUE)
\* and rollback_migrations (forward = FALSE); r.done are the ids pushed so far
RunEach(ids, migrations, forward, r) ==
    IF ids = <<>> \/ ~r.result.ok THEN r
    ELSE IF Head(ids) \in DOMAIN migrations
    THEN RunEach(Tail(ids), migrations, forward,
                 Ran(Head(ids), r,
                     IF forward THEN apply_migration(migrations[Head(ids)], r.result.val)
                     ELSE rollback_migration(migrations[Head(ids)], r.result.val)))
    ELSE RunEach(Tail(ids), migrations, forward, r)

\* the outcome of a call
Outcome(result, target_file, state_file, backup_dir, io) ==
    [result |-> result, target_file |-> target_file, state_file |-> state_file,
     backup_dir |-> backup_dir, io |-> io]

\* the end of a batch whose document write returned sv: the state write
Recorded(bk, run, sv, st) ==
    Outcome(IF st.result.ok THEN Ok(run.done) ELSE st.result,
            sv.target_file, st.state_file, bk.backup_dir,
            bk.io \o run.io \o sv.io \o st.io)

\* mutant: the state is written although the document write failed
Saved_state_after_failed_write(bk, run, sv, forward, fs, fault, residue) ==
    Recorded(bk, run, sv,
             IF forward THEN update_state(run.done, fs.state_file, "none", residue)
             ELSE remove_from_state(run.done, fs.state_file, "none", residue))

\* self.save_target_document(&fdml_document)?; self.update_state(&applied)?;
\* (remove_from_state(&rolled_back) in a rollback)
Saved(bk, run, sv, forward, fs, fault, residue) ==
    IF ~sv.result.ok
    THEN Outcome(sv.result, sv.target_file, fs.state_file, bk.backup_dir,
                 bk.io \o run.io \o sv.io)
    ELSE Recorded(bk, run, sv,
                  IF forward THEN update_state(run.done, fs.state_file, fault, residue)
                  ELSE remove_from_state(run.done, fs.state_file, fault, residue))

\* mutant: the backup is taken after the migrations have run
Persist_backup_after_run(bk, run, forward, has_target, fs, fault, residue) ==
    IF ~run.result.ok
    THEN Outcome(run.result, fs.target_file, fs.state_file, bk.backup_dir, run.io \o bk.io)
    ELSE IF run.done = <<>>
    THEN Outcome(Ok(<<>>), fs.target_file, fs.state_file, bk.backup_dir, run.io \o bk.io)
    ELSE Saved([bk EXCEPT !.io = <<>>], [run EXCEPT !.io = @ \o bk.io],
               save_target_document(has_target, run.result.val, fs.target_file, fault, residue),
               forward, fs, fault, residue)

\* the batch after its loop returned run: nothing is written when an
\* operation failed or when no migration was run
Persist(bk, run, forward, has_target, fs, fault, residue) ==
    IF ~run.result.ok
    THEN Outcome(run.result, fs.target_file, fs.state_file, bk.backup_dir, bk.io \o run.io)
    ELSE IF run.done = <<>>
    THEN Outcome(Ok(<<>>), fs.target_file, fs.state_file, bk.backup_dir, bk.io \o run.io)
    ELSE Saved(bk, run,
               save_target_document(has_target, run.result.val, fs.target_file, fault, residue),
               forward, fs, fault, residue)

\* the batch after create_backup returned bk: load the document and run the
\* migrations on it; a document that does not load ends the call
Backed(bk, ids, migrations, forward, has_target, fs, fault, residue) ==
    IF ~bk.result.ok
    THEN Outcome(bk.result, fs.target_file, fs.state_file, bk.backup_dir, bk.io)
    ELSE Persist(bk,
                 RunEach(ids, migrations, forward,
                         [result |-> load_target_document(has_target, fs.target_file),
                          io |-> <<>>, done |-> <<>>]),
                 forward, has_target, fs, fault, residue)

\* the part apply_migrations and rollback_migrations share once the ids are
\* selected: backup, load the document, run, save the document, write the state
RunBatch(ids, migrations, forward, has_target, fs, now, fault, residue) ==
    Backed(create_backup(has_target, fs.target_file, fs.backup_dir, now, fault, residue),
           ids, migrations, forward, has_target, fs, fault, residue)

\* mutant: the backup is taken before the dry-run check
apply_migrations_late_check(dry_run, has_target, keys, migration_dir, fs, now, fault, residue) ==
    LET Return(result) == Outcome(result, fs.target_file, fs.state_file, fs.backup_dir, <<>>)
        migrations == load_migrations(migration_dir)
    IN IF ~migrations.ok THEN Return(migrations) ELSE
    LET state == LoadStateOrDefault(fs.state_file)
        pending_migrations == get_pending_migrations(migrations.val, state, keys)
        bk == create_backup(has_target, fs.target_file, fs.backup_dir, now, fault, residue)
    IN IF ~pending_migrations.ok THEN Return(pending_migrations)
       ELSE IF pending_migrations.val = <<>> THEN Return(Ok(<<>>))
       ELSE IF dry_run
       THEN Outcome(Ok(pending_migrations.val), fs.target_file, fs.state_file, bk.backup_dir,
                    bk.io)
       ELSE RunBatch(pending_migrations.val, migrations.val, TRUE, has_target, fs, now,
                     fault, residue)

\* mutant: a dry run goes on like a real run
apply_migrations_ignores_dry_run(dry_run, has_target, keys, migration_dir, fs, now, fault, residue) ==
    LET Return(result) == Outcome(result, fs.target_file, fs.state_file, fs.backup_dir, <<>>)
        migrations == load_migrations(migration_dir)
    IN IF ~migrations.ok THEN Return(migrations) ELSE
    LET state == LoadStateOrDefault(fs.state_file)
        pending_migrations == get_pending_migrations(migrations.val, state, keys)
    IN IF ~pending_migrations.ok THEN Return(pending_migrations)
       ELSE IF pending_migrations.val = <<>> THEN Return(Ok(<<>>))
       ELSE RunBatch(pending_migrations.val, migrations.val, TRUE, has_target, fs, now,
                     fault, residue)

apply_migrations(dry_run, has_target, keys, migration_dir, fs, now, fault, residue) ==
    LET Return(result) == Outcome(result, fs.target_file, fs.state_file, fs.backup_dir, <<>>)
        migrations == load_migrations(migration_dir)
    IN IF ~migrations.ok THEN Return(migrations) ELSE
    LET state == LoadStateOrDefault(fs.state_file)
        pending_migrations == get_pending_migrations(migrations.val, state, keys)
    IN IF ~pending_migrations.ok THEN Return(pending_migrations)
       ELSE IF pending_migrations.val = <<>> THEN Return(Ok(<<>>))
       ELSE IF dry_run THEN Return(Ok(pending_migrations.val))
       ELSE RunBatch(pending_migrations.val, migrations.val, TRUE, has_target, fs, now,
                     fault, residue)

\* mutant: the oldest applied ids are selected
TakeRev_oldest(list, count) ==
    [i \in 1..(IF count < Len(list) THEN count ELSE Len(list)) |-> list[i]]

\* state.applied_migrations.iter().rev().take(count)
TakeRev(list, count) ==
    [i \in 1..(IF count < Len(list) THEN count ELSE Len(list)) |-> list[Len(list) + 1 - i]]

\* mutant: a dry run goes on like a real rollback
rollback_migrations_ignores_dry_run(count, dry_run, has_target, migration_dir, fs, now, fault, residue) ==
    LET Return(result) == Outcome(result, fs.target_file, fs.state_file, fs.backup_dir, <<>>)
        migrations == load_migrations(migration_dir)
    IN IF ~migrations.ok THEN Return(migrations) ELSE
    LET state == LoadStateOrDefault(fs.state_file)
        to_rollback == TakeRev(state.applied_migrations, count)
    IN IF to_rollback = <<>> THEN Return(Ok(<<>>))
       ELSE IF ~verify_rollback_safety(to_rollback, migration_dir).ok
       THEN Return(verify_rollback_safety(to_rollback, migration_dir))
       ELSE RunBatch(to_rollback, migrations.val, FALSE, has_target, fs, now, fault, residue)

rollback_migrations(count, dry_run, has_target, migration_dir, fs, now, fault, residue) ==
    LET Return(result) == Outcome(result, fs.target_file, fs.state_file, fs.backup_dir, <<>>)
        migrations == load_migrations(migration_dir)
    IN IF ~migrations.ok THEN Return(migrations) ELSE
    LET state == LoadStateOrDefault(fs.state_file)
        to_rollback == TakeRev(state.applied_migrations, count)
    IN IF to_rollback = <<>> THEN Return(Ok(<<>>))
       ELSE IF ~verify_rollback_safety(to_rollback, migration_dir).ok
       THEN Return(verify_rollback_safety(to_rollback, migration_dir))
       ELSE IF dry_run THEN Return(Ok(to_rollback))
       ELSE RunBatch(to_rollback, migrations.val, FALSE, has_target, fs, now, fault, residue)

\* mutant: the pending count is the number of loaded migrations
migration_status_counts_all(keys, migration_dir, fs) ==
    LET migrations == load_migrations(migration_dir)
    IN IF ~migrations.ok THEN migrations ELSE
    LET state == LoadStateOrDefault(fs.state_file)
        pending == get_pending_migrations(migrations.val, state, keys)
    IN IF ~pending.ok THEN pending
       ELSE Ok([total_migrations |-> Cardinality(DOMAIN migrations.val),
                applied_count |-> Len(state.applied_migrations),
                pending_count |-> Cardinality(DOMAIN migrations.val),
                applied_migrations |-> state.applied_migrations,
                pending_migrations |-> pending.val])

migration_status(keys, migration_dir, fs) ==
    LET migrations == load_migrations(migration_dir)
    IN IF ~migrations.ok THEN migrations ELSE
    LET state == LoadStateOrDefault(fs.state_file)
        pending == get_pending_migrations(migrations.val, state, keys)
    IN IF ~pending.ok THEN pending
       ELSE Ok([total_migrations |-> Cardinality(DOMAIN migrations.val),
                applied_count |-> Len(state.applied_migrations),
                pending_count |-> Len(pending.val),
                applied_migrations |-> state.applied_migrations,
                pending_migrations |-> pending.val])

(***************************************************************************)
(* The migrations and documents the model runs on                          *)
(***************************************************************************)
MigrationIds == {"m1", "m2", "m3"}

Str_user == <<"u", "s", "e", "r">>

Str_age == <<"a", "g", "e">>

Str_fa == <<"f", "a">>

Str_fb == <<"f", "b">>

NoChanges == [name |-> None, description |-> None, add_fields |-> None, remove_fields |-> None]

\* up and down of each migration file: m1 adds a feature with a scenario, m2
\* adds a field to entity user and renames the entity, m3 is forward-only, m0
\* adds a feature whose id is the empty string
OperationsOf(id) ==
    CASE id = "m0" ->
            [up |-> <<[type |-> "add_feature", id |-> <<>>, title |-> <<"A">>,
                       description |-> None, scenarios |-> None]>>,
             down |-> <<[type |-> "remove_feature", id |-> <<>>]>>]
      [] id = "m1" ->
            [up |-> <<[type |-> "add_feature", id |-> Str_fa, title |-> <<"A">>,
                       description |-> None, scenarios |-> Some(<<(<<"S">>)>>)]>>,
             down |-> <<[type |-> "remove_feature", id |-> Str_fa]>>]
      [] id = "m2" ->
            [up |-> <<[type |-> "add_field", entity_id |-> Str_user, field_name |-> Str_age,
                       field_type |-> <<"i", "n", "t">>, required |-> Some(FALSE),
                       default |-> Some([t |-> "number", v |-> 18])],
                      [type |-> "modify_entity", id |-> Str_user,
                       changes |-> [NoChanges EXCEPT !.name = Some(<<"P">>)]]>>,
             down |-> <<[type |-> "remove_field", entity_id |-> Str_user, field_name |-> Str_age],
                        [type |-> "modify_entity", id |-> Str_user,
                         changes |-> [NoChanges EXCEPT !.name = Some(<<"U">>)]]>>]
      [] OTHER ->
            [up |-> <<[type |-> "add_feature", id |-> Str_fb, title |-> <<"B">>,
                       description |-> Some(<<"b">>), scenarios |-> None]>>,
             down |-> <<>>]

MigrationFile(id, dependencies) ==
    [id |-> id, title |-> None, description |-> None, up |-> OperationsOf(id).up,
     down |-> OperationsOf(id).down, dependencies |-> dependencies]

\* dependency lists of at most n ids
DependencyLists(n) ==
    {None} \cup UNION {{Some(d) : d \in [1..k -> MigrationIds]} : k \in 1..n}

\* the directories holding exactly the files of ids, with dependency lists of
\* at most n ids
DirsOf(ids, n) ==
    {[exists |-> TRUE, malformed |-> FALSE,
      files |-> [id \in ids |-> MigrationFile(id, deps[id])]] :
        deps \in [ids -> DependencyLists(n)]}

\* the ids a migration declares as dependencies
DeclaredDeps(id, files) == Range(DepsOf(id, files))

RECURSIVE Closure(_, _)
\* the ids reachable from the ids of S over dependency edges, S included
Closure(S, files) ==
    LET T == S \cup UNION {DeclaredDeps(x, files) : x \in S}
    IN IF T = S THEN S ELSE Closure(T, files)

\* id depends on itself, directly or through other migrations
OnCycle(id, files) == id \in Closure(DeclaredDeps(id, files), files)

\* some migration reachable from an id of P lies on a dependency cycle
CycleReachableFrom(P, files) == \E x \in Closure(P, files) : OnCycle(x, files)

HasCycle(files) == CycleReachableFrom(DOMAIN files, files)

\* the migration directories the runner is run on: absent, holding a file that
\* does not deserialize, holding at most two migrations, or holding three
\* migrations with a dependency cycle
MigrationDirs ==
    {[exists |-> FALSE, malformed |-> FALSE, files |-> <<>>],
     [exists |-> TRUE, malformed |-> TRUE, files |-> <<>>]} \cup
    UNION {DirsOf(ids, 1) : ids \in (SUBSET MigrationIds) \ {MigrationIds}} \cup
    {dir \in DirsOf(MigrationIds, 1) : HasCycle(dir.files)}

FieldOf(name, type) ==
    [name |-> name, field_type |-> type, description |-> None, required |-> Some(TRUE),
     default |-> None, constraints |-> None]

FeatureOf(id) ==
    [id |-> id, title |-> <<"T">>, description |-> None, scenarios |-> <<>>,
     acceptance_criteria |-> None, dependencies |-> None]

\* the document of migration/tests.rs create_test_fdml_file: entity user with
\* two fields and one feature
UserDocument ==
    [entities |-> <<[id |-> Str_user, name |-> Some(<<"U">>), description |-> None,
                     fields |-> <<FieldOf(<<"i", "d">>, <<"s">>), FieldOf(<<"e">>, <<"s">>)>>,
                     relationships |-> None]>>,
     actions |-> <<>>,
     features |-> <<FeatureOf(<<"f", "x">>)>>,
     other |-> "authored"]

\* a document without entities that already holds a feature with m1's id
FeatureDocument ==
    [entities |-> <<>>, actions |-> <<>>, features |-> <<FeatureOf(Str_fa)>>, other |-> "authored"]

InitialTargets == {None, Some(Yaml(UserDocument)), Some(Yaml(FeatureDocument))}

\* bounds
MaxClock == 1

MaxCount == 2

MaxDeps == 1

\* Apply is enabled while the document it loads has fewer features and fields
MaxDocSize == 4

\* the step of a call at which the file system fails, and what the failing
\* write leaves behind
Faults ==
    {<<"none", "unchanged">>, <<"backup", "unchanged">>,
     <<"doc_write", "unchanged">>, <<"doc_write", "garbled">>,
     <<"state_write", "unchanged">>, <<"state_write", "garbled">>}

(***************************************************************************)
(* State                                                                    *)
(***************************************************************************)
VARIABLES migration_dir, has_target, target_file, state_file, backup_dir, clock, lastCall,
          lastOperation, invocations

vars == <<migration_dir, has_target, target_file, state_file, backup_dir, clock, lastCall,
          lastOperation, invocations>>

\* has_target: whether the runner is built with_target_file
Files == [target_file |-> target_file, state_file |-> state_file, backup_dir |-> backup_dir]

\* what a call starting now would load: the ids of the document's features and the
\* applied list
LoadedFeatures ==
    LET d == load_target_document(has_target, target_file)
    IN IF d.ok THEN [i \in 1..Len(d.val.features) |-> d.val.features[i].id] ELSE <<>>

LoadedApplied == LoadStateOrDefault(state_file).applied_migrations

RECURSIVE SumFields(_)
SumFields(entities) ==
    IF entities = <<>> THEN 0 ELSE Len(Head(entities).fields) + SumFields(Tail(entities))

\* features plus fields of the document a call starting now would load
LoadedSize ==
    LET d == load_target_document(has_target, target_file)
    IN IF d.ok THEN Len(d.val.features) + SumFields(d.val.entities) ELSE 0

NoCall ==
    [kind |-> "none", dry_run |-> FALSE, count |-> 0,
     result |-> Ok(<<>>), io |-> <<>>, features_before |-> <<>>, applied_before |-> <<>>]

\* the record of a call: its arguments, what it returned, the trace of what
\* it did, and the feature ids and applied list it started from
Call(kind, dry_run, count, out) ==
    [kind |-> kind, dry_run |-> dry_run, count |-> count,
     result |-> out.result, io |-> out.io,
     features_before |-> LoadedFeatures, applied_before |-> LoadedApplied]

\* no operation has been executed or validated on its own
NoOperation ==
    [fn |-> "none", operation |-> [type |-> "none"], initial |-> DefaultDocument,
     document |-> DefaultDocument, result |-> Ok(<<>>), after |-> DefaultDocument, runs |-> 0]

\* the two runner invocations of one command line each, neither started
Invocations == {1, 2}

\* an invocation that has not started: pc is the file access it makes next,
\* ids the migrations it selected, planned_on the applied list it read when
\* it selected them, loaded the document it read, run the outcome of its
\* loop, state_read the state file as update_state / remove_from_state read it
Idle ==
    [pc |-> "idle", kind |-> "none", ids |-> <<>>, planned_on |-> <<>>,
     loaded |-> DefaultDocument,
     run |-> [result |-> Ok(DefaultDocument), io |-> <<>>, done |-> <<>>],
     state_read |-> None, result |-> Ok(<<>>)]

NoInvocations == [p \in Invocations |-> Idle]

Init ==
    /\ migration_dir \in MigrationDirs
    /\ has_target \in BOOLEAN
    /\ target_file \in IF has_target THEN InitialTargets ELSE {None}
    /\ state_file = None
    /\ backup_dir = None
    /\ clock = 0
    /\ lastCall = NoCall
    /\ lastOperation = NoOperation
    /\ invocations = NoInvocations

Finish(kind, dry_run, count, out) ==
    /\ target_file' = out.target_file
    /\ state_file' = out.state_file
    /\ backup_dir' = out.backup_dir
    /\ lastCall' = Call(kind, dry_run, count, out)
    /\ UNCHANGED <<migration_dir, has_target, clock, lastOperation, invocations>>

ApplyDryRun ==
    \E keys \in KeyOrders(migration_dir.files) :
        Finish("apply", TRUE, 0,
               apply_migrations(TRUE, has_target, keys, migration_dir, Files, clock,
                                "none", "unchanged"))

Apply ==
    \E f \in Faults, keys \in KeyOrders(migration_dir.files) :
        /\ LoadedSize < MaxDocSize
        /\ Finish("apply", FALSE, 0,
                  apply_migrations(FALSE, has_target, keys, migration_dir, Files, clock,
                                   f[1], f[2]))

RollbackDryRun ==
    \E count \in 0..MaxCount :
        Finish("rollback", TRUE, count,
               rollback_migrations(count, TRUE, has_target, migration_dir, Files, clock,
                                   "none", "unchanged"))

Rollback ==
    \E count \in 0..MaxCount, f \in Faults :
        Finish("rollback", FALSE, count,
               rollback_migrations(count, FALSE, has_target, migration_dir, Files, clock,
                                   f[1], f[2]))

Status ==
    \E keys \in KeyOrders(migration_dir.files) :
        Finish("status", FALSE, 0,
               Outcome(migration_status(keys, migration_dir, Files),
                       target_file, state_file, backup_dir, <<>>))

Tick ==
    /\ clock < MaxClock
    /\ clock' = clock + 1
    /\ UNCHANGED <<migration_dir, has_target, target_file, state_file, backup_dir, lastCall,
                   lastOperation, invocations>>

\* the runner's calls, all within one second of the clock
Next == ApplyDryRun \/ Apply \/ RollbackDryRun \/ Rollback \/ Status

Spec == Init /\ [][Next]_vars

(***************************************************************************)
(* Planning alone: get_pending_migrations over every directory of up to    *)
(* three migrations with dependency lists of at most MaxDeps ids, and      *)
(* every set of applied ids                                                *)
(***************************************************************************)
PlanDirs == UNION {DirsOf(ids, MaxDeps) : ids \in SUBSET MigrationIds}

IdOrder == <<"m1", "m2", "m3">>

AppliedStates ==
    {Json([applied_migrations |-> SelectSeq(IdOrder, LAMBDA id : id \in S),
           last_migration |-> Last(SelectSeq(IdOrder, LAMBDA id : id \in S))]) :
        S \in SUBSET MigrationIds}

InitPlan ==
    /\ migration_dir \in PlanDirs
    /\ has_target = TRUE
    /\ target_file = None
    /\ state_file \in {None} \cup {Some(st) : st \in AppliedStates}
    /\ backup_dir = None
    /\ clock = 0
    /\ lastCall = NoCall
    /\ lastOperation = NoOperation
    /\ invocations = NoInvocations

NextPlan == ApplyDryRun \/ Status

SpecPlan == InitPlan /\ [][NextPlan]_vars

(***************************************************************************)
(* Migrations with an empty identifying field: the runner on directories   *)
(* that hold m0, alone or next to m1                                       *)
(***************************************************************************)
InvalidDirs == UNION {DirsOf(ids, MaxDeps) : ids \in {{"m0"}, {"m0", "m1"}}}

InitInvalid ==
    /\ migration_dir \in InvalidDirs
    /\ has_target \in BOOLEAN
    /\ target_file \in IF has_target THEN InitialTargets ELSE {None}
    /\ state_file = None
    /\ backup_dir = None
    /\ clock = 0
    /\ lastCall = NoCall
    /\ lastOperation = NoOperation
    /\ invocations = NoInvocations

NextInvalid == ApplyDryRun \/ Apply \/ Rollback

SpecInvalid == InitInvalid /\ [][NextInvalid]_vars

(***************************************************************************)
(* Backups over time: applies and rollbacks of m1 and m2 on the test       *)
(* document while the clock, which names the backups, may advance between  *)
(* two calls                                                               *)
(***************************************************************************)
ClockDirs == UNION {DirsOf(ids, 0) : ids \in {{"m1"}, {"m1", "m2"}}}

InitClock ==
    /\ migration_dir \in ClockDirs
    /\ has_target = TRUE
    /\ target_file = Some(Yaml(UserDocument))
    /\ state_file = None
    /\ backup_dir = None
    /\ clock = 0
    /\ lastCall = NoCall
    /\ lastOperation = NoOperation
    /\ invocations = NoInvocations

NextClock == Apply \/ Rollback \/ Tick

SpecClock == InitClock /\ [][NextClock]_vars

(***************************************************************************)
(* Properties                                                              *)
(***************************************************************************)
\* the migrations a call loads, the empty map when loading fails
LoadedMigrations ==
    IF load_migrations(migration_dir).ok THEN load_migrations(migration_dir).val ELSE <<>>

\* the loaded migrations whose id is not in the applied list
PendingSet(applied) == {id \in DOMAIN LoadedMigrations : ~Contains(applied, id)}

\* a call that plans an apply without running it
IsPlanning(call) == call.kind = "status" \/ (call.kind = "apply" /\ call.dry_run)

\* the order get_pending_migrations returned to a successful planning call
PlannedOrder(call) ==
    IF call.kind = "status" THEN call.result.val.pending_migrations ELSE call.result.val

\* position of id in the list, 0 when absent
IndexOf(list, id) ==
    IF Contains(list, id) THEN CHOOSE i \in 1..Len(list) : list[i] = id /\ \A j \in 1..(i - 1) : list[j] # id
    ELSE 0

\* every id of the list comes after each of its declared dependencies that is
\* in the list
DependenciesFirst(list) ==
    \A i, j \in 1..Len(list) :
        list[j] \in DeclaredDeps(list[i], LoadedMigrations) => j < i

\* C1: when the loaded migrations have no dependency cycle, planning succeeds
\* and the returned order holds every pending migration after each of its
\* declared dependencies that is pending too
C1_PendingAfterDependencies ==
    (IsPlanning(lastCall) /\ ~HasCycle(LoadedMigrations)) =>
        /\ lastCall.result.ok
        /\ Range(PlannedOrder(lastCall)) = PendingSet(lastCall.applied_before)
        /\ DependenciesFirst(PlannedOrder(lastCall))

\* three pending migrations were ordered, one of them depending on another
C1_Witness ==
    /\ IsPlanning(lastCall) /\ lastCall.result.ok
    /\ ~HasCycle(LoadedMigrations)
    /\ Len(PlannedOrder(lastCall)) = 3
    /\ \E i, j \in 1..3 :
          /\ i < j
          /\ PlannedOrder(lastCall)[i] \in
                DeclaredDeps(PlannedOrder(lastCall)[j], LoadedMigrations)
          /\ PlannedOrder(lastCall)[i] = "m3"

\* C9 (as claimed): two planning calls over the same migrations and the same
\* applied state return the same order
C9_SameOrderEveryCall ==
    [][(lastCall.kind = "status" /\ lastCall'.kind = "status"
        /\ lastCall.result.ok /\ lastCall'.result.ok
        /\ migration_dir' = migration_dir /\ state_file' = state_file)
       => PlannedOrder(lastCall') = PlannedOrder(lastCall)]_vars

(***************************************************************************)
(* Properties of the calls.  A step of Spec is one call; lastCall' is the  *)
(* record of that call and the unprimed files are the files it started on. *)
(***************************************************************************)
FilesUnchanged ==
    /\ target_file' = target_file
    /\ state_file' = state_file
    /\ backup_dir' = backup_dir

\* the trace holds an operation that failed
FailedExec(io) == \E i \in 1..Len(io) : io[i].ev = "exec" /\ ~io[i].ok

\* the trace holds a write, successful or not, of the document / of the state
WroteDocument(io) == \E i \in 1..Len(io) : io[i].ev = "write_doc"

WroteState(io) == \E i \in 1..Len(io) : io[i].ev = "write_state"

OperationErrors ==
    {"Entity not found", "Field not found", "Action not found",
     "Unsupported target type for validation"}

\* C2: when a dependency cycle can be reached from a pending migration, apply
\* (dry run or not) and status fail with the circular dependency error, return
\* no order, do nothing and leave the target, the state and the backups alone
C2_CycleFailsWithoutWriting ==
    [][(lastCall'.kind \in {"apply", "status"}
        /\ CycleReachableFrom(PendingSet(lastCall'.applied_before), LoadedMigrations))
       => /\ ~lastCall'.result.ok
          /\ lastCall'.result.err = "Circular dependency"
          /\ lastCall'.result.val = <<>>
          /\ lastCall'.io = <<>>
          /\ FilesUnchanged]_vars

\* a real apply over three migrations that depend on each other in a ring failed
C2_Witness ==
    /\ lastCall.kind = "apply" /\ ~lastCall.dry_run
    /\ lastCall.result.err = "Circular dependency"
    /\ DOMAIN LoadedMigrations = MigrationIds
    /\ \A id \in MigrationIds :
          OnCycle(id, LoadedMigrations) /\ id \notin DeclaredDeps(id, LoadedMigrations)
    /\ has_target /\ IsSome(target_file)

\* the backup of the target the call started on is in the backups directory
BackupKept ==
    (has_target /\ IsSome(target_file)) =>
        /\ IsSome(backup_dir')
        /\ \E n \in DOMAIN Unwrap(backup_dir') : Unwrap(backup_dir')[n] = Unwrap(target_file)

\* C3: when an operation fails in an apply or a rollback, the call returns the
\* error, the target and the state file are as before the call, and the
\* backup taken at the start is there
C3_FailedOperationPersistsNothing ==
    [][(lastCall'.kind \in {"apply", "rollback"} /\ FailedExec(lastCall'.io))
       => /\ ~lastCall'.result.ok
          /\ lastCall'.result.err \in OperationErrors
          /\ target_file' = target_file
          /\ state_file' = state_file
          /\ BackupKept]_vars

\* an apply failed in its second migration after the first one had succeeded
\* in memory, on an existing target
C3_Witness ==
    /\ lastCall.kind = "apply" /\ ~lastCall.result.ok
    /\ has_target /\ IsSome(target_file)
    /\ \E i, j \in 1..Len(lastCall.io) :
          /\ i < j
          /\ lastCall.io[i].ev = "exec" /\ lastCall.io[i].ok
          /\ lastCall.io[j].ev = "exec" /\ ~lastCall.io[j].ok
          /\ lastCall.io[i].migration # lastCall.io[j].migration

\* C4 (as claimed): every apply or rollback that returns an error leaves the
\* target document file and the state file as they were
C4_ErrorLeavesFilesAlone ==
    [][(lastCall'.kind \in {"apply", "rollback"} /\ ~lastCall'.result.ok)
       => (target_file' = target_file /\ state_file' = state_file)]_vars

\* C5: a dry-run apply returns every pending id once, dependencies first,
\* executes nothing, never fails with an operation error, and leaves the
\* target, the state file and the backups directory as they were
C5_DryRunApplyChangesNothing ==
    [][(lastCall'.kind = "apply" /\ lastCall'.dry_run)
       => /\ FilesUnchanged
          /\ lastCall'.io = <<>>
          /\ lastCall'.result.err \notin OperationErrors
          /\ (load_migrations(migration_dir).ok
              /\ ~CycleReachableFrom(PendingSet(lastCall'.applied_before), LoadedMigrations))
                => lastCall'.result.ok
          /\ lastCall'.result.ok =>
                /\ Range(lastCall'.result.val) = PendingSet(lastCall'.applied_before)
                /\ Len(lastCall'.result.val) =
                      Cardinality(PendingSet(lastCall'.applied_before))
                /\ DependenciesFirst(lastCall'.result.val)]_vars

\* a dry run returned two pending ids, one of which would fail if applied,
\* with no state file and no backups directory
C5_Witness ==
    /\ lastCall.kind = "apply" /\ lastCall.dry_run /\ lastCall.result.ok
    /\ Len(lastCall.result.val) = 2
    /\ Contains(lastCall.result.val, "m2")
    /\ has_target /\ target_file = Some(Yaml(FeatureDocument))
    /\ state_file = None /\ backup_dir = None

\* the ids a rollback call selects
Selected(call) == TakeRev(call.applied_before, call.count)

HasEmptyDown(id) == id \in DOMAIN LoadedMigrations /\ LoadedMigrations[id].down = <<>>

C7_SecondApplyDoesNothing ==
    (lastCall.kind = "apply" /\ ~lastCall.dry_run /\ lastCall.result.ok) =>
        \A f \in Faults, keys \in KeyOrders(LoadedMigrations) :
            apply_migrations(FALSE, has_target, keys, migration_dir, Files, clock, f[1], f[2])
                = Outcome(Ok(<<>>), target_file, state_file, backup_dir, <<>>)

\* an apply of two migrations succeeded on an existing target
C7_Witness ==
    /\ lastCall.kind = "apply" /\ ~lastCall.dry_run /\ lastCall.result.ok
    /\ Len(lastCall.result.val) = 2
    /\ has_target /\ IsSome(target_file)
    /\ WroteDocument(lastCall.io) /\ WroteState(lastCall.io)

\* the migration adds one feature and its down removes the feature of that id
AddsAndRemovesFeature(id) ==
    /\ id \in DOMAIN LoadedMigrations
    /\ Len(LoadedMigrations[id].up) = 1
    /\ LoadedMigrations[id].up[1].type = "add_feature"
    /\ Len(LoadedMigrations[id].down) = 1
    /\ LoadedMigrations[id].down[1].type = "remove_feature"
    /\ LoadedMigrations[id].down[1].id = LoadedMigrations[id].up[1].id

\* the last call applied exactly one migration, which adds a feature, and this
\* step rolls it back with rollback_migrations(1)
AppliedThenRolledBack ==
    /\ lastCall.kind = "apply" /\ ~lastCall.dry_run /\ lastCall.result.ok
    /\ Len(lastCall.result.val) = 1
    /\ AddsAndRemovesFeature(lastCall.result.val[1])
    /\ lastCall'.kind = "rollback" /\ ~lastCall'.dry_run /\ lastCall'.count = 1
    /\ lastCall'.result.ok

\* C8 (as claimed): for any document, the rollback restores the feature count
\* and the applied list the apply started from
C8_RollbackRestoresAnyDocument ==
    [][AppliedThenRolledBack
       => /\ Len(LoadedFeatures') = Len(lastCall.features_before)
          /\ LoadedApplied' = lastCall.applied_before]_vars

\* C10 (as claimed): after a successful apply every migration of the applied
\* list has each of its declared dependencies earlier in the list
C10_DeclaredDependenciesAppliedEarlier ==
    (lastCall.kind = "apply" /\ ~lastCall.dry_run /\ lastCall.result.ok) =>
        \A i \in 1..Len(LoadedApplied) :
            \A d \in DeclaredDeps(LoadedApplied[i], LoadedMigrations) :
                \E j \in 1..(i - 1) : LoadedApplied[j] = d

\* C11 (as claimed): an apply never executes an operation that
\* validate_operation rejects (one whose id, title, entity_id, field_name or
\* field_type is empty)
C11_OnlyValidOperationsExecuted ==
    [][(lastCall'.kind = "apply")
       => \A i \in 1..Len(lastCall'.io) :
             lastCall'.io[i].ev = "exec" => validate_operation(lastCall'.io[i].operation).ok]_vars

\* a call that is not a dry run, on an existing target file, whose backup
\* copy does not fail, and that selects at least one migration: the pending
\* ones of an apply (resolved without a cycle), the last `count` applied ones
\* of a rollback
SelectsOnExistingTarget ==
    /\ lastCall'.kind \in {"apply", "rollback"} /\ ~lastCall'.dry_run
    /\ has_target /\ IsSome(target_file)
    /\ load_migrations(migration_dir).ok
    /\ \A i \in 1..Len(lastCall'.io) : lastCall'.io[i].ev = "backup" => lastCall'.io[i].ok
    /\ lastCall'.kind = "apply" =>
          /\ PendingSet(lastCall'.applied_before) # {}
          /\ ~CycleReachableFrom(PendingSet(lastCall'.applied_before), LoadedMigrations)
    /\ lastCall'.kind = "rollback" => Selected(lastCall') # <<>>

\* the call wrote one backup, named by the clock and holding the target as it
\* was, before it did anything else
OneBackupFirst ==
    /\ lastCall'.io # <<>>
    /\ lastCall'.io[1].ev = "backup"
    /\ \A i \in 2..Len(lastCall'.io) : lastCall'.io[i].ev # "backup"
    /\ IsSome(backup_dir')
    /\ DOMAIN Unwrap(backup_dir') =
          (IF IsSome(backup_dir) THEN DOMAIN Unwrap(backup_dir) ELSE {}) \cup {clock}
    /\ Unwrap(backup_dir')[clock] = Unwrap(target_file)
    /\ \A n \in DOMAIN Unwrap(backup_dir') \ {clock} : Unwrap(backup_dir')[n] = Unwrap(backup_dir)[n]

\* C12 (as claimed): a call that is not a dry run, selects at least one
\* migration and finds the target file writes exactly one backup, a copy of
\* the target, before any operation and before the target is written
C12_OneBackupBeforeMutation ==
    [][SelectsOnExistingTarget => OneBackupFirst]_vars

\* C12 (amended): such a call, when it is an apply or a rollback whose
\* selected migrations pass verify_rollback_safety, writes exactly one backup,
\* a copy of the target, before any operation and before the target is written
C12_OneBackupAfterVerification ==
    [][(SelectsOnExistingTarget
        /\ (lastCall'.kind = "rollback"
              => verify_rollback_safety(Selected(lastCall'), migration_dir).ok))
       => OneBackupFirst]_vars

\* a rollback took its backup, ran two down operations and wrote the target
C12_Witness ==
    /\ lastCall.kind = "rollback" /\ ~lastCall.dry_run /\ lastCall.result.ok
    /\ has_target
    /\ Len(lastCall.io) >= 4
    /\ lastCall.io[1].ev = "backup" /\ lastCall.io[1].ok
    /\ lastCall.io[2].ev = "exec" /\ lastCall.io[3].ev = "exec"
    /\ WroteDocument(lastCall.io)
    /\ IsSome(backup_dir)

\* a successful call that is not a dry run and rewrites the target
Mutating(call) ==
    /\ call.kind \in {"apply", "rollback"} /\ ~call.dry_run
    /\ call.result.ok /\ WroteDocument(call.io)

\* C13 (as claimed): of two successful calls in a row that each rewrite the
\* existing target file, the second adds one backup file to the backups
\* directory and leaves the backup of the first as it was, so k such calls
\* leave k backups
C13_EveryInvocationAddsABackup ==
    [][(clock' = clock /\ has_target /\ IsSome(target_file) /\ IsSome(backup_dir)
        /\ Mutating(lastCall) /\ Mutating(lastCall'))
       => /\ IsSome(backup_dir')
          /\ Cardinality(DOMAIN Unwrap(backup_dir')) =
                Cardinality(DOMAIN Unwrap(backup_dir)) + 1
          /\ \A n \in DOMAIN Unwrap(backup_dir) :
                /\ n \in DOMAIN Unwrap(backup_dir')
                /\ Unwrap(backup_dir')[n] = Unwrap(backup_dir)[n]]_vars

\* the document the migrations of ids leave when run, in order, on the empty
\* document
AppliedToEmpty(ids) ==
    RunEach(ids, LoadedMigrations, TRUE,
            [result |-> Ok(DefaultDocument), io |-> <<>>, done |-> <<>>]).result.val

\* C14: an apply that is not a dry run and finds no target file writes no
\* backup and creates no backups directory, fails only when planning fails,
\* an operation fails on the empty document or a write fails, and on success
\* leaves a target file holding the operations' result on the empty document
\* and the returned ids appended to the applied list
C14_ApplyWithoutTargetFile ==
    [][(lastCall'.kind = "apply" /\ ~lastCall'.dry_run /\ has_target /\ target_file = None)
       => /\ backup_dir' = backup_dir
          /\ \A i \in 1..Len(lastCall'.io) : lastCall'.io[i].ev # "backup"
          /\ ~lastCall'.result.ok =>
                \/ lastCall'.result.err \in {"Circular dependency", "Failed to parse migration file"}
                \/ lastCall'.result.err \in OperationErrors /\ FailedExec(lastCall'.io)
                \/ /\ lastCall'.result.err = "IO error"
                   /\ \E i \in 1..Len(lastCall'.io) :
                         lastCall'.io[i].ev \in {"write_doc", "write_state"} /\ ~lastCall'.io[i].ok
          /\ (lastCall'.result.ok /\ lastCall'.result.val # <<>>) =>
                /\ target_file' = Some(Yaml(AppliedToEmpty(lastCall'.result.val)))
                /\ LoadedApplied' = lastCall'.applied_before \o lastCall'.result.val]_vars

\* an apply of two migrations succeeded without a backup and left a target
\* file, the backups directory still missing
C14_Witness ==
    /\ lastCall.kind = "apply" /\ ~lastCall.dry_run /\ lastCall.result.ok
    /\ has_target /\ IsSome(target_file) /\ backup_dir = None
    /\ Len(lastCall.result.val) = 2
    /\ lastCall.features_before = <<>>
    /\ \A i \in 1..Len(lastCall.io) : lastCall.io[i].ev # "backup"
    /\ LoadedApplied = lastCall.result.val

MaxBatch == 2

NoDuplicates(list) == \A i, j \in 1..Len(list) : list[i] = list[j] => i = j

\* the batches update_state can be given: up to MaxBatch different ids
Batches == {b \in UNION {[1..n -> MigrationIds] : n \in 0..MaxBatch} : NoDuplicates(b)}

\* C15: the persisted applied list never holds an id twice, and update_state
\* keeps it so whatever ids it is given, applied already or not
C15_AppliedListHasNoDuplicates ==
    /\ NoDuplicates(LoadedApplied)
    /\ \A b \in Batches :
          NoDuplicates(LoadStateOrDefault(
              update_state(b, state_file, "none", "unchanged").state_file).applied_migrations)

\* an apply appended a migration to a list that held another one, after a
\* rollback had removed it
C15_Witness ==
    /\ lastCall.kind = "apply" /\ ~lastCall.dry_run /\ lastCall.result.ok
    /\ Len(lastCall.applied_before) = 1
    /\ Len(lastCall.result.val) = 1
    /\ Len(LoadedApplied) = 2
    /\ IsSome(backup_dir)

\* C16: in the state a call would load, last_migration is the last id of
\* applied_migrations, and null exactly when the list is empty
C16_LastMigrationIsLastApplied ==
    LET state == LoadStateOrDefault(state_file)
    IN /\ state.applied_migrations = <<>> <=> state.last_migration = None
       /\ state.applied_migrations # <<>> =>
             state.last_migration = Some(state.applied_migrations[Len(state.applied_migrations)])

\* a rollback of the last of two applied migrations wrote the state
C16_Witness ==
    /\ lastCall.kind = "rollback" /\ ~lastCall.dry_run /\ lastCall.result.ok
    /\ WroteState(lastCall.io)
    /\ Len(lastCall.applied_before) = 2
    /\ Len(LoadedApplied) = 1
    /\ LoadStateOrDefault(state_file).last_migration = Some(lastCall.applied_before[1])

\* the last min(count, number applied) ids of the list a rollback started
\* from, the most recently applied first
LastAppliedFirst(call) ==
    LET n == Len(call.applied_before)
        k == IF call.count < n THEN call.count ELSE n
    IN [i \in 1..k |-> call.applied_before[n + 1 - i]]

RECURSIVE DownLastToFirst(_)
\* the operations a rollback of ids has to execute: migration by migration,
\* each down list from its last element to its first
DownLastToFirst(ids) ==
    IF ids = <<>> THEN <<>>
    ELSE LET down == LoadedMigrations[Head(ids)].down
         IN [k \in 1..Len(down) |->
                [migration |-> Head(ids), operation |-> down[Len(down) + 1 - k]]]
            \o DownLastToFirst(Tail(ids))

\* the operations a call executed, in order
Executions(io) ==
    LET execs == SelectSeq(io, LAMBDA e : e.ev = "exec")
    IN [k \in 1..Len(execs) |->
           [migration |-> execs[k].migration, operation |-> execs[k].operation]]

IsPrefix(s, t) == Len(s) <= Len(t) /\ \A k \in 1..Len(s) : s[k] = t[k]

\* C17: a rollback returns the last min(count, number applied) ids, most
\* recently applied first, and executes their down lists in that order, each
\* from its last operation to its first; with count 0 or nothing applied it
\* returns the empty list and does nothing
C17_RollbackSelectsAndRunsInReverse ==
    [][(lastCall'.kind = "rollback" /\ load_migrations(migration_dir).ok)
       => /\ (lastCall'.count = 0 \/ lastCall'.applied_before = <<>>) =>
                /\ lastCall'.result.ok /\ lastCall'.result.val = <<>>
                /\ lastCall'.io = <<>>
                /\ FilesUnchanged
          /\ lastCall'.result.ok => lastCall'.result.val = LastAppliedFirst(lastCall')
          /\ (lastCall'.result.ok /\ ~lastCall'.dry_run) =>
                Executions(lastCall'.io) = DownLastToFirst(lastCall'.result.val)
          /\ Executions(lastCall'.io) # <<>> =>
                IsPrefix(Executions(lastCall'.io), DownLastToFirst(LastAppliedFirst(lastCall')))]_vars

\* a rollback of two migrations, one of them with two down operations,
\* succeeded
C17_Witness ==
    /\ lastCall.kind = "rollback" /\ ~lastCall.dry_run /\ lastCall.result.ok
    /\ lastCall.count = 2
    /\ Len(lastCall.result.val) = 2
    /\ Contains(lastCall.result.val, "m2")
    /\ Len(Executions(lastCall.io)) = 3

\* C18: a successful apply leaves the applied list it started from followed
\* by the returned ids in the returned order; a successful rollback leaves
\* the list it started from without the returned ids, the others in their
\* order; a dry run leaves the state file alone
C18_AppliedListAppendedOrFiltered ==
    [][(lastCall'.kind \in {"apply", "rollback"} /\ lastCall'.result.ok)
       => /\ lastCall'.dry_run => state_file' = state_file
          /\ (lastCall'.kind = "apply" /\ ~lastCall'.dry_run) =>
                LoadedApplied' = lastCall'.applied_before \o lastCall'.result.val
          /\ (lastCall'.kind = "rollback" /\ ~lastCall'.dry_run) =>
                LoadedApplied' = SelectSeq(lastCall'.applied_before,
                                           LAMBDA id : ~Contains(lastCall'.result.val, id))]_vars

\* an apply appended m1 after m2, which had stayed applied through a rollback
C18_Witness ==
    /\ lastCall.kind = "apply" /\ ~lastCall.dry_run /\ lastCall.result.ok
    /\ lastCall.applied_before = <<"m2">>
    /\ lastCall.result.val = <<"m1">>
    /\ LoadedApplied = <<"m2", "m1">>

\* C19: a call of a runner that has a target file writes the document at most
\* once, and writes it exactly when it is not a dry run, it executed
\* something and no operation failed
C19_DocumentWrittenOnceAfterSuccess ==
    [][(lastCall'.kind \in {"apply", "rollback"} /\ has_target)
       => /\ \A i, j \in 1..Len(lastCall'.io) :
                (lastCall'.io[i].ev = "write_doc" /\ lastCall'.io[j].ev = "write_doc") => i = j
          /\ WroteDocument(lastCall'.io) <=>
                (/\ ~lastCall'.dry_run
                 /\ Executions(lastCall'.io) # <<>>
                 /\ ~FailedExec(lastCall'.io))
          /\ ~WroteDocument(lastCall'.io) => target_file' = target_file]_vars

\* an apply of one migration wrote the document once, between its operation
\* and the state write
C19_Witness ==
    /\ lastCall.kind = "apply" /\ ~lastCall.dry_run /\ lastCall.result.ok
    /\ has_target
    /\ Len(lastCall.io) = 4
    /\ lastCall.io[2].ev = "exec"
    /\ lastCall.io[3].ev = "write_doc" /\ lastCall.io[3].ok
    /\ lastCall.io[4].ev = "write_state"

\* C20: a call writes the state file only when it is not a dry run, after all
\* the operations it executed, none of which failed, and, for a runner with a
\* target file, after a document write that succeeded; a call that does not
\* get to its state write, a failed document write included, leaves the state
\* file as it was
C20_StateWrittenLast ==
    [][(lastCall'.kind \in {"apply", "rollback"})
       => /\ \A j \in 1..Len(lastCall'.io) :
                lastCall'.io[j].ev = "write_state" =>
                   /\ ~lastCall'.dry_run
                   /\ j = Len(lastCall'.io)
                   /\ Executions(lastCall'.io) # <<>>
                   /\ ~FailedExec(lastCall'.io)
                   /\ has_target =>
                         \E i \in 1..(j - 1) :
                            lastCall'.io[i].ev = "write_doc" /\ lastCall'.io[i].ok
          /\ (\E i \in 1..Len(lastCall'.io) :
                 lastCall'.io[i].ev = "write_doc" /\ ~lastCall'.io[i].ok)
                => ~WroteState(lastCall'.io)
          /\ ~WroteState(lastCall'.io) => state_file' = state_file]_vars

\* a rollback failed in its document write and left the state, with the
\* migration still applied, as it was
C20_Witness ==
    /\ lastCall.kind = "rollback" /\ ~lastCall.result.ok
    /\ \E i \in 1..Len(lastCall.io) : lastCall.io[i].ev = "write_doc" /\ ~lastCall.io[i].ok
    /\ ~WroteState(lastCall.io)
    /\ LoadedApplied = lastCall.applied_before
    /\ LoadedApplied # <<>>

\* the ids whose operations a call executed
ExecutedIds(io) == {e.migration : e \in Range(Executions(io))}

\* C21 (as claimed): an id that was in the applied list when the previous
\* call began, and that this previous call was not a rollback that could
\* remove it, is neither returned nor executed by the apply that follows
C21_AppliedNeverExecutedAgain ==
    [][(/\ lastCall.kind # "none"
        /\ ~(lastCall.kind = "rollback" /\ ~lastCall.dry_run)
        /\ lastCall'.kind = "apply")
       => \A id \in Range(lastCall.applied_before) :
             /\ lastCall'.result.ok => ~Contains(lastCall'.result.val, id)
             /\ id \notin ExecutedIds(lastCall'.io)]_vars

\* C22 (as claimed): a call that finds a state file it cannot parse fails
\* and leaves the target, the state file and the backups as they were
C22_UnreadableStateIsAnError ==
    [][(/\ IsSome(state_file) /\ ~load_state(state_file).ok
        /\ lastCall'.kind \in {"apply", "rollback", "status"})
       => (~lastCall'.result.ok /\ FilesUnchanged)]_vars

(***************************************************************************)
(* Single operations: execute_operation and validate_operation on every   *)
(* operation and document of a catalogue, the operation executed up to     *)
(* MaxRuns times in a row on the document it leaves                        *)
(***************************************************************************)
MaxRuns == 2

Str_pay == <<"p", "a", "y">>

Str_o == <<"o">>

Str_z == <<"z">>

Str_e == <<"e">>

Str_id == <<"i", "d">>

Str_int == <<"i", "n", "t">>

EntityOf(id, fields) ==
    [id |-> id, name |-> Some(<<"U">>), description |-> None, fields |-> fields,
     relationships |-> None]

ActionOf(id) ==
    [id |-> id, name |-> Some(<<"N">>), description |-> None, input |-> None, output |-> None,
     side_effects |-> None, preconditions |-> None, postconditions |-> None]

\* a document with entities, actions and features that share ids and names:
\* entity user twice, field id twice in the first of them, feature fa twice
CatalogueDocument ==
    [entities |-> <<EntityOf(Str_user, <<FieldOf(Str_id, <<"s">>), FieldOf(Str_e, <<"s">>),
                                         FieldOf(Str_id, Str_int)>>),
                    EntityOf(Str_o, <<FieldOf(Str_e, <<"s">>)>>),
                    EntityOf(Str_user, <<>>)>>,
     actions |-> <<ActionOf(Str_pay), ActionOf(Str_o)>>,
     features |-> <<FeatureOf(Str_fa), FeatureOf(<<"f", "x">>), FeatureOf(Str_fa)>>,
     other |-> "authored"]

OperationDocuments == {DefaultDocument, UserDocument, FeatureDocument, CatalogueDocument}

EntityChangesSet ==
    {[name |-> n, description |-> d, add_fields |-> f, remove_fields |-> f] :
        n \in {None, Some(<<"P">>)}, d \in {None, Some(<<"D">>)},
        f \in {None, Some(<<Str_e>>)}}

ActionChangesSet ==
    {[name |-> n, description |-> d, input_changes |-> c, output_changes |-> c] :
        n \in {None, Some(<<"P">>)}, d \in {None, Some(<<"D">>)},
        c \in {None, Some(<<Str_e>>)}}

\* the operations of each variant, with empty, blank, present and absent ids
Operations ==
    {[type |-> "add_feature", id |-> i, title |-> t, description |-> d, scenarios |-> sc] :
        i \in {<<>>, <<" ">>, Str_fa, Str_fb}, t \in {<<>>, <<" ", " ">>, <<"A">>},
        d \in {None, Some(<<"D">>)},
        sc \in {None, Some(<<(<<"S">>)>>), Some(<<(<<"S">>), (<<"T">>)>>)}} \cup
    {[type |-> "remove_feature", id |-> i] :
        i \in {<<>>, <<" ">>, Str_fa, <<"f", "x">>, Str_fb}} \cup
    {[type |-> "modify_entity", id |-> i, changes |-> c] :
        i \in {<<>>, <<" ">>, Str_user, Str_o, Str_z}, c \in EntityChangesSet} \cup
    {[type |-> "add_field", entity_id |-> e, field_name |-> n, field_type |-> t,
      required |-> r, default |-> d] :
        e \in {<<>>, Str_user, Str_o, Str_z}, n \in {<<>>, <<" ">>, Str_age, Str_e},
        t \in {<<>>, Str_int}, r \in {None, Some(TRUE)},
        d \in {None, Some([t |-> "number", v |-> 18])}} \cup
    {[type |-> "remove_field", entity_id |-> e, field_name |-> n] :
        e \in {<<>>, <<" ">>, Str_user, Str_o, Str_z}, n \in {<<>>, Str_e, Str_id, Str_age}} \cup
    {[type |-> "update_action", id |-> i, changes |-> c] :
        i \in {<<>>, <<" ">>, Str_pay, Str_o, Str_z}, c \in ActionChangesSet} \cup
    {[type |-> "change_validation", target_id |-> i, target_type |-> t,
      validation_rules |-> <<>>] :
        i \in {<<>>, <<" ">>, Str_user, Str_pay}, t \in {EntityStr, ActionStr, <<"x">>}}

\* what *document holds when execute_operation returns: the statements that
\* ran before an Err have changed the document in place
DocumentAfter(operation, document) ==
    LET r == execute_operation(operation, document)
        i == FindById(document.entities, operation.entity_id)
    IN IF r.ok THEN r.val
       ELSE IF operation.type = "remove_field" /\ i # 0
       THEN [document EXCEPT !.entities[i].fields =
                                 SelectSeq(@, LAMBDA f : f.name # operation.field_name)]
       ELSE document

InitOperations ==
    /\ migration_dir = [exists |-> FALSE, malformed |-> FALSE, files |-> <<>>]
    /\ has_target = FALSE
    /\ target_file = None
    /\ state_file = None
    /\ backup_dir = None
    /\ clock = 0
    /\ lastCall = NoCall
    /\ invocations = NoInvocations
    /\ lastOperation \in
          {[NoOperation EXCEPT !.operation = operation, !.initial = document,
                               !.document = document, !.after = document] :
              operation \in Operations, document \in OperationDocuments}

\* execute_operation on the document the previous execution left
Execute ==
    /\ lastOperation.runs < MaxRuns
    /\ lastOperation' =
          [lastOperation EXCEPT
              !.fn = "execute_operation",
              !.document = lastOperation.after,
              !.result = execute_operation(lastOperation.operation, lastOperation.after),
              !.after = DocumentAfter(lastOperation.operation, lastOperation.after),
              !.runs = @ + 1]
    /\ UNCHANGED <<migration_dir, has_target, target_file, state_file, backup_dir, clock,
                   lastCall, invocations>>

\* validate_operation takes the operation alone
Validate ==
    /\ lastOperation' =
          [lastOperation EXCEPT
              !.fn = "validate_operation",
              !.document = lastOperation.after,
              !.result = validate_operation(lastOperation.operation)]
    /\ UNCHANGED <<migration_dir, has_target, target_file, state_file, backup_dir, clock,
                   lastCall, invocations>>

NextOperations == Execute \/ Validate

SpecOperations == InitOperations /\ [][NextOperations]_vars

\* an identifying field of the operation is empty or blank
BlankIdentifier(operation) ==
    CASE operation.type = "add_feature" ->
            TrimIsEmpty(operation.id) \/ TrimIsEmpty(operation.title)
      [] operation.type = "add_field" ->
            \/ TrimIsEmpty(operation.entity_id) \/ TrimIsEmpty(operation.field_name)
            \/ TrimIsEmpty(operation.field_type)
      [] operation.type = "remove_field" ->
            TrimIsEmpty(operation.entity_id) \/ TrimIsEmpty(operation.field_name)
      [] operation.type = "change_validation" -> TrimIsEmpty(operation.target_id)
      [] OTHER -> TrimIsEmpty(operation.id)

\* C23 (as claimed): validate_operation fails exactly on the operations with
\* an empty or blank identifying field, and leaves the document alone
C23_ValidationRejectsBlankIdentifiers ==
    lastOperation.fn = "validate_operation"
       => /\ ~lastOperation.result.ok <=> BlankIdentifier(lastOperation.operation)
          /\ lastOperation.after = lastOperation.document

\* the operation that was executed, the document it was given, what it
\* returned and the document it left
ExecutedOperation(type) ==
    lastOperation.fn = "execute_operation" /\ lastOperation.operation.type = type

\* the elements of s that satisfy none of the removals, in the order of s:
\* kept is the set of their positions
InOrder(s, kept) ==
    [j \in 1..Cardinality(kept) |->
        s[CHOOSE k \in kept : Cardinality({k2 \in kept : k2 <= k}) = j]]

\* C24: RemoveFeature never fails; it leaves no feature with the id, keeps
\* the other features in their order and everything else as it was, changes
\* nothing when no feature has the id, and executed again changes nothing
C24_RemoveFeatureIsIdempotent ==
    ExecutedOperation("remove_feature") =>
       LET id == lastOperation.operation.id
           before == lastOperation.document
           after == lastOperation.after
       IN /\ lastOperation.result = Ok(after)
          /\ \A k \in 1..Len(after.features) : after.features[k].id # id
          /\ after.features =
                InOrder(before.features,
                        {k \in 1..Len(before.features) : before.features[k].id # id})
          /\ [after EXCEPT !.features = before.features] = before
          /\ (\A k \in 1..Len(before.features) : before.features[k].id # id) => after = before
          /\ lastOperation.runs >= 2 => after = before
          /\ execute_operation(lastOperation.operation, after) = Ok(after)

\* RemoveFeature was executed twice in a row on a document that held the
\* id more than once and another feature: the first execution removed, the
\* second changed nothing
C24_Witness ==
    /\ ExecutedOperation("remove_feature")
    /\ lastOperation.runs = 2
    /\ lastOperation.after = lastOperation.document
    /\ Len(lastOperation.initial.features) = Len(lastOperation.after.features) + 2
    /\ lastOperation.after.features # <<>>

\* the position of the first element with the id, as the claims name it
FirstWithId(s, id) ==
    CHOOSE i \in 1..Len(s) : s[i].id = id /\ \A j \in 1..(i - 1) : s[j].id # id

HasId(s, id) == \E i \in 1..Len(s) : s[i].id = id

Failed(error, about) ==
    /\ ~lastOperation.result.ok
    /\ lastOperation.result.err = error
    /\ lastOperation.result.about = about
    /\ lastOperation.after = lastOperation.document

\* C25: AddField fails with the entity-not-found error and leaves the
\* document unchanged when no entity has the id; otherwise it appends one
\* field with the given name, type and required flag to that entity and
\* changes nothing else
C25_AddFieldAppendsOneField ==
    ExecutedOperation("add_field") =>
       LET operation == lastOperation.operation
           before == lastOperation.document
           after == lastOperation.after
       IN IF ~HasId(before.entities, operation.entity_id)
          THEN Failed("Entity not found", operation.entity_id)
          ELSE LET i == FirstWithId(before.entities, operation.entity_id)
                   fields == after.entities[i].fields
               IN /\ lastOperation.result = Ok(after)
                  /\ Len(fields) = Len(before.entities[i].fields) + 1
                  /\ SubSeq(fields, 1, Len(fields) - 1) = before.entities[i].fields
                  /\ fields[Len(fields)].name = operation.field_name
                  /\ fields[Len(fields)].field_type = operation.field_type
                  /\ fields[Len(fields)].required = operation.required
                  /\ [after EXCEPT !.entities[i].fields = before.entities[i].fields] = before

\* a field was added to the first of two entities that share the id
C25_Witness ==
    /\ ExecutedOperation("add_field")
    /\ lastOperation.result.ok
    /\ lastOperation.runs = 1
    /\ Len(lastOperation.document.entities) = 3
    /\ Len(lastOperation.after.entities[1].fields) = 4

\* C26: RemoveField fails with the entity-not-found error when no entity has
\* the id and with the field-not-found error when the entity has no field of
\* the name, leaving the document unchanged; otherwise it removes the fields
\* of that name from that entity and changes nothing else
C26_RemoveFieldRemovesTheField ==
    ExecutedOperation("remove_field") =>
       LET operation == lastOperation.operation
           before == lastOperation.document
           after == lastOperation.after
       IN IF ~HasId(before.entities, operation.entity_id)
          THEN Failed("Entity not found", operation.entity_id)
          ELSE LET i == FirstWithId(before.entities, operation.entity_id)
                   fields == before.entities[i].fields
                   others == {k \in 1..Len(fields) : fields[k].name # operation.field_name}
               IN IF others = 1..Len(fields)
                  THEN Failed("Field not found", operation.field_name)
                  ELSE /\ lastOperation.result = Ok(after)
                       /\ after.entities[i].fields = InOrder(fields, others)
                       /\ [after EXCEPT !.entities[i].fields = fields] = before

\* RemoveField removed a field, and executed again on the result it failed
\* with the field-not-found error and changed nothing
C26_Witness ==
    /\ ExecutedOperation("remove_field")
    /\ lastOperation.runs = 2
    /\ lastOperation.initial # lastOperation.document
    /\ Failed("Field not found", lastOperation.operation.field_name)

\* C27: ModifyEntity and UpdateAction fail with the not-found error and leave
\* the document unchanged when no entity / action has the id; otherwise they
\* overwrite the name and the description that changes holds on that one
\* entity / action and leave everything else, its fields included, as it was
C27_ChangesOverwriteOnlyPresentAttributes ==
    (ExecutedOperation("modify_entity") \/ ExecutedOperation("update_action")) =>
       LET operation == lastOperation.operation
           entity == operation.type = "modify_entity"
           before == lastOperation.document
           after == lastOperation.after
           targets == IF entity THEN before.entities ELSE before.actions
           changed == IF entity THEN after.entities ELSE after.actions
       IN IF ~HasId(targets, operation.id)
          THEN Failed(IF entity THEN "Entity not found" ELSE "Action not found", operation.id)
          ELSE LET i == FirstWithId(targets, operation.id)
                   restored == [changed EXCEPT ![i].name = targets[i].name,
                                               ![i].description = targets[i].description]
               IN /\ lastOperation.result = Ok(after)
                  /\ changed[i].name = IF IsSome(operation.changes.name)
                                       THEN operation.changes.name ELSE targets[i].name
                  /\ changed[i].description = IF IsSome(operation.changes.description)
                                              THEN operation.changes.description
                                              ELSE targets[i].description
                  /\ restored = targets
                  /\ IF entity THEN [after EXCEPT !.entities = targets] = before
                               ELSE [after EXCEPT !.actions = targets] = before

\* ModifyEntity with a description and field changes but no name set the
\* description of an entity and kept its name and its fields
C27_Witness ==
    /\ ExecutedOperation("modify_entity")
    /\ lastOperation.result.ok
    /\ lastOperation.runs = 1
    /\ ~IsSome(lastOperation.operation.changes.name)
    /\ IsSome(lastOperation.operation.changes.add_fields)
    /\ lastOperation.after # lastOperation.document
    /\ lastOperation.after.entities[1].name = Some(<<"U">>)
    /\ lastOperation.after.entities[1].fields # <<>>

\* C28: migration_status writes nothing; when it succeeds it reports the
\* number of loaded migrations, the applied list of the state with its
\* length, and as pending, each once, the loaded ids that are not applied,
\* with their number: every loaded migration is applied or pending, never both
C28_StatusPartitionsLoadedMigrations ==
    [][(lastCall'.kind = "status")
       => /\ FilesUnchanged
          /\ lastCall'.io = <<>>
          /\ lastCall'.result.ok =>
                LET status == lastCall'.result.val
                    applied == Range(status.applied_migrations)
                    pending == Range(status.pending_migrations)
                IN /\ status.total_migrations = Cardinality(DOMAIN LoadedMigrations)
                   /\ status.applied_migrations = LoadedApplied
                   /\ status.applied_count = Len(status.applied_migrations)
                   /\ pending = PendingSet(LoadedApplied)
                   /\ NoDuplicates(status.pending_migrations)
                   /\ status.pending_count = Len(status.pending_migrations)
                   /\ applied \cap pending = {}
                   /\ DOMAIN LoadedMigrations \subseteq applied \cup pending]_vars

\* a status with a pending migration, an applied one that is loaded and an
\* applied one whose file is gone
C28_Witness ==
    /\ lastCall.kind = "status" /\ lastCall.result.ok
    /\ lastCall.result.val.pending_count = 1
    /\ lastCall.result.val.applied_count = 2
    /\ lastCall.result.val.total_migrations = 2

(***************************************************************************)
(* Two invocations of the runner on the same files, within one second,     *)
(* interleaved at the file reads and writes of apply_migrations and        *)
(* rollback_migrations(1): read the state and select, copy the target to   *)
(* the backup, read the target and run, write the target, read the state,  *)
(* write the state                                                         *)
(***************************************************************************)
AppliedM1 == [applied_migrations |-> <<"m1">>, last_migration |-> Some("m1")]

\* the files before the two invocations: nothing applied yet, or m1 applied
RaceFiles ==
    {[state_file |-> None, target_file |-> Some(Yaml(UserDocument))],
     [state_file |-> Some(Json(AppliedM1)),
      target_file |-> Some(Yaml(apply_migration(MigrationFile("m1", None),
                                                UserDocument).result.val))]}

InitRace ==
    /\ migration_dir \in DirsOf({"m1"}, 0) \cup DirsOf({"m1", "m2"}, 0)
    /\ has_target = TRUE
    /\ \E fs \in RaceFiles : target_file = fs.target_file /\ state_file = fs.state_file
    /\ backup_dir = None
    /\ clock = 0
    /\ lastCall = NoCall
    /\ lastOperation = NoOperation
    /\ invocations = NoInvocations

Step(p, local) ==
    /\ invocations' = [invocations EXCEPT ![p] = local]
    /\ UNCHANGED <<migration_dir, has_target, clock, lastCall, lastOperation>>

\* the invocation returns before the backup when its selection failed or is empty
Planned(p, kind, out) ==
    Step(p, [Idle EXCEPT !.kind = kind,
                         !.pc = IF out.result.ok /\ out.result.val # <<>>
                                THEN "backup" ELSE "done",
                         !.ids = IF out.result.ok THEN out.result.val ELSE <<>>,
                         !.planned_on = LoadedApplied,
                         !.result = out.result])

\* load_migrations, load_state and the selection of the ids, which is all a
\* dry run does
Plan(p) ==
    /\ invocations[p].pc = "idle"
    /\ \E kind \in {"apply", "rollback"}, keys \in KeyOrders(migration_dir.files) :
          Planned(p, kind,
                  IF kind = "apply"
                  THEN apply_migrations(TRUE, has_target, keys, migration_dir, Files, clock,
                                        "none", "unchanged")
                  ELSE rollback_migrations(1, TRUE, has_target, migration_dir, Files, clock,
                                           "none", "unchanged"))
    /\ UNCHANGED <<target_file, state_file, backup_dir>>

Backup(p) ==
    /\ invocations[p].pc = "backup"
    /\ backup_dir' = create_backup(has_target, target_file, backup_dir, clock,
                                   "none", "unchanged").backup_dir
    /\ Step(p, [invocations[p] EXCEPT !.pc = "load"])
    /\ UNCHANGED <<target_file, state_file>>

Loaded(p, document, run) ==
    Step(p, [invocations[p] EXCEPT !.pc = IF run.result.ok THEN "save" ELSE "done",
                                   !.loaded = IF document.ok THEN document.val ELSE @,
                                   !.run = run,
                                   !.result = IF run.result.ok THEN Ok(run.done)
                                              ELSE run.result])

\* load_target_document and the loop over the selected migrations, which
\* works on the document in memory
Load(p) ==
    /\ invocations[p].pc = "load"
    /\ Loaded(p, load_target_document(has_target, target_file),
              RunEach(invocations[p].ids, load_migrations(migration_dir).val,
                      invocations[p].kind = "apply",
                      [result |-> load_target_document(has_target, target_file),
                       io |-> <<>>, done |-> <<>>]))
    /\ UNCHANGED <<target_file, state_file, backup_dir>>

Save(p) ==
    /\ invocations[p].pc = "save"
    /\ target_file' = save_target_document(has_target, invocations[p].run.result.val,
                                           target_file, "none", "unchanged").target_file
    /\ Step(p, [invocations[p] EXCEPT !.pc = "read_state"])
    /\ UNCHANGED <<state_file, backup_dir>>

\* let mut state = self.load_state().unwrap_or_default();
ReadState(p) ==
    /\ invocations[p].pc = "read_state"
    /\ Step(p, [invocations[p] EXCEPT !.pc = "write_state", !.state_read = state_file])
    /\ UNCHANGED <<target_file, state_file, backup_dir>>

\* fs::write(&self.state_file, content) of the state read before, changed in memory
WriteBack(p) ==
    /\ invocations[p].pc = "write_state"
    /\ state_file' =
          (IF invocations[p].kind = "apply"
           THEN update_state(invocations[p].run.done, invocations[p].state_read,
                             "none", "unchanged")
           ELSE remove_from_state(invocations[p].run.done, invocations[p].state_read,
                                  "none", "unchanged")).state_file
    /\ Step(p, [invocations[p] EXCEPT !.pc = "done"])
    /\ UNCHANGED <<target_file, backup_dir>>

NextRace ==
    \E p \in Invocations :
        Plan(p) \/ Backup(p) \/ Load(p) \/ Save(p) \/ ReadState(p) \/ WriteBack(p)

SpecRace == InitRace /\ [][NextRace]_vars

\* how many elements of s have the id
CountId(s, id) == Cardinality({k \in 1..Len(s) : s[k].id = id})

\* the invocation has run its migrations on the document it loaded
HasRun(p) ==
    \/ invocations[p].pc \in {"save", "read_state", "write_state"}
    \/ invocations[p].pc = "done" /\ invocations[p].result.ok /\ invocations[p].ids # <<>>

Completed(p) == invocations[p].pc = "done" /\ invocations[p].result.ok

\* C29: nothing orders two interleaved applies: each selects the migrations
\* missing from the applied list it read, whatever the other has written to
\* the document since, and adds their effect to the document it loaded; the
\* document ends with the feature of m1 twice only when both invocations
\* executed m1, and both backups of the second go to one file
C29_InterleavedAppliesShareFiles ==
    /\ \A p \in Invocations :
          invocations[p].kind = "apply" =>
             /\ Range(invocations[p].ids) \cap Range(invocations[p].planned_on) = {}
             /\ HasRun(p) =>
                   CountId(invocations[p].run.result.val.features, Str_fa) =
                      CountId(invocations[p].loaded.features, Str_fa)
                      + (IF Contains(invocations[p].ids, "m1") THEN 1 ELSE 0)
    /\ (/\ \A p \in Invocations : invocations[p].kind = "apply" /\ Completed(p)
        /\ load_target_document(has_target, target_file).ok
        /\ CountId(load_target_document(has_target, target_file).val.features, Str_fa) = 2)
          => \A p \in Invocations :
                Contains(invocations[p].ids, "m1") /\ invocations[p].planned_on = <<>>
    /\ IsSome(backup_dir) => DOMAIN Unwrap(backup_dir) = {clock}

\* two applies have returned [m1] each: the document holds the feature of
\* m1 twice, and the one backup file holds the document with that feature,
\* not the document that was there before the two invocations
C29_Witness ==
    /\ \A p \in Invocations :
          /\ invocations[p].kind = "apply" /\ Completed(p)
          /\ invocations[p].result.val = <<"m1">>
    /\ CountId(load_target_document(has_target, target_file).val.features, Str_fa) = 2
    /\ IsSome(backup_dir)
    /\ Unwrap(backup_dir)[clock] # Yaml(UserDocument)
    /\ CountId(Unwrap(backup_dir)[clock].doc.features, Str_fa) = 1

\* C30 (as claimed): when an apply and a rollback have both written the
\* state, the applied list holds what the apply recorded and no longer holds
\* what the rollback removed
C30_BothStateUpdatesKept ==
    \A a, r \in Invocations :
       (/\ invocations[a].kind = "apply" /\ Completed(a) /\ invocations[a].ids # <<>>
        /\ invocations[r].kind = "rollback" /\ Completed(r) /\ invocations[r].ids # <<>>)
       => /\ \A id \in Range(invocations[a].run.done) \ Range(invocations[r].run.done) :
                Contains(LoadedApplied, id)
          /\ \A id \in Range(invocations[r].run.done) \ Range(invocations[a].run.done) :
                ~Contains(LoadedApplied, id)

\* the migration is loaded and its down list is not empty and passes
\* validate_operation
HasValidDown(id) ==
    /\ id \in DOMAIN LoadedMigrations
    /\ LoadedMigrations[id].down # <<>>
    /\ ValidateEach(LoadedMigrations[id].down).ok

\* C31: with the directory loaded and every selected migration having a
\* non-empty valid down list, a dry-run rollback returns the selected ids,
\* most recently applied first, executes nothing and leaves the target, the
\* state file and the backups as they were; the rollback with the same count
\* that follows selects the same ids, executes their down lists in that
\* order and returns them when it succeeds
C31_DryRunRollbackChangesNothing ==
    [][/\ (/\ lastCall'.kind = "rollback" /\ lastCall'.dry_run
           /\ load_migrations(migration_dir).ok
           /\ \A id \in Range(Selected(lastCall')) : HasValidDown(id))
          => /\ lastCall'.result = Ok(Selected(lastCall'))
             /\ lastCall'.io = <<>>
             /\ FilesUnchanged
       /\ (/\ lastCall.kind = "rollback" /\ lastCall.dry_run /\ lastCall.result.ok
           /\ lastCall'.kind = "rollback" /\ ~lastCall'.dry_run
           /\ lastCall'.count = lastCall.count)
          => /\ Selected(lastCall') = lastCall.result.val
             /\ lastCall'.result.ok => lastCall'.result.val = lastCall.result.val
             /\ IsPrefix(Executions(lastCall'.io), DownLastToFirst(lastCall.result.val))
             /\ lastCall'.result.ok =>
                   Executions(lastCall'.io) = DownLastToFirst(lastCall.result.val)]_vars

\* a dry-run rollback of two applied migrations on an existing target file
\* returned both
C31_Witness ==
    /\ lastCall.kind = "rollback" /\ lastCall.dry_run /\ lastCall.result.ok
    /\ lastCall.count = 2
    /\ Len(lastCall.result.val) = 2
    /\ lastCall.result.val = TakeRev(LoadedApplied, 2)
    /\ has_target /\ IsSome(target_file)

\* C32: the order a successful planning call returns holds every loaded
\* migration that is not applied exactly once and nothing else: no applied
\* id and no id that is only named as a dependency; a dependency on an id
\* that is not loaded does not make the call fail
C32_PendingListIsAPermutation ==
    IsPlanning(lastCall) =>
       /\ lastCall.result.ok =>
             /\ Range(PlannedOrder(lastCall)) = PendingSet(lastCall.applied_before)
             /\ NoDuplicates(PlannedOrder(lastCall))
             /\ Len(PlannedOrder(lastCall)) = Cardinality(PendingSet(lastCall.applied_before))
             /\ \A id \in Range(PlannedOrder(lastCall)) :
                   /\ ~Contains(lastCall.applied_before, id)
                   /\ id \in DOMAIN LoadedMigrations
       /\ (/\ load_migrations(migration_dir).ok
           /\ ~CycleReachableFrom(PendingSet(lastCall.applied_before), LoadedMigrations))
          => lastCall.result.ok

\* two pending migrations were ordered: one depends on an id that no loaded
\* migration has, the other on an applied migration
C32_Witness ==
    /\ IsPlanning(lastCall) /\ lastCall.result.ok
    /\ Len(PlannedOrder(lastCall)) = 2
    /\ \E id \in Range(PlannedOrder(lastCall)) :
          DeclaredDeps(id, LoadedMigrations) \ DOMAIN LoadedMigrations # {}
    /\ \E id \in Range(PlannedOrder(lastCall)) :
          \E dep \in DeclaredDeps(id, LoadedMigrations) :
             Contains(lastCall.applied_before, dep)

\* C33: every migration of the applied list has each of its declared
\* dependencies that is a loaded migration earlier in the list, and after a
\* successful rollback no migration of the list depends on a migration the
\* rollback removed
C33_AppliedListKeepsDependencyOrder ==
    /\ \A i \in 1..Len(LoadedApplied) :
          \A d \in DeclaredDeps(LoadedApplied[i], LoadedMigrations) \cap DOMAIN LoadedMigrations :
             \E j \in 1..(i - 1) : LoadedApplied[j] = d
    /\ (lastCall.kind = "rollback" /\ ~lastCall.dry_run /\ lastCall.result.ok) =>
          \A i \in 1..Len(LoadedApplied) :
             DeclaredDeps(LoadedApplied[i], LoadedMigrations) \cap Range(lastCall.result.val) = {}

\* a rollback removed a migration that depends on a loaded migration, which
\* stays applied
C33_Witness ==
    /\ lastCall.kind = "rollback" /\ ~lastCall.dry_run /\ lastCall.result.ok
    /\ Len(lastCall.result.val) = 1
    /\ \E d \in DeclaredDeps(lastCall.result.val[1], LoadedMigrations) :
          d \in DOMAIN LoadedMigrations /\ Contains(LoadedApplied, d)

\* C34: after a successful apply that was not a dry run every loaded
\* migration is in the applied list, migration_status reports no pending
\* migration, and the call returned, each once, the ids that were pending
\* when it started
C34_SuccessfulApplyLeavesNothingPending ==
    (lastCall.kind = "apply" /\ ~lastCall.dry_run /\ lastCall.result.ok) =>
       /\ PendingSet(LoadedApplied) = {}
       /\ \A keys \in KeyOrders(LoadedMigrations) :
             /\ migration_status(keys, migration_dir, Files).ok
             /\ migration_status(keys, migration_dir, Files).val.pending_count = 0
             /\ migration_status(keys, migration_dir, Files).val.pending_migrations = <<>>
       /\ Range(lastCall.result.val) = PendingSet(lastCall.applied_before)
       /\ NoDuplicates(lastCall.result.val)

\* an apply found one of two loaded migrations applied and applied the other
C34_Witness ==
    /\ lastCall.kind = "apply" /\ ~lastCall.dry_run /\ lastCall.result.ok
    /\ Len(lastCall.applied_before) = 1
    /\ Len(lastCall.result.val) = 1
    /\ Len(LoadedApplied) = 2
    /\ Cardinality(DOMAIN LoadedMigrations) = 2

\* C35: an apply that is not a dry run, by a runner without a target file,
\* writes no backup and no document; when its operations succeed on the
\* empty document it goes on to the state write, and when it succeeds every
\* pending migration is recorded as applied, so that an apply by a runner
\* with a target file, whatever that file holds, returns the empty list and
\* leaves the file as it is
C35_ApplyWithoutTargetRecordsOnly ==
    [][(lastCall'.kind = "apply" /\ ~lastCall'.dry_run /\ ~has_target)
       => /\ target_file' = target_file
          /\ backup_dir' = backup_dir
          /\ \A i \in 1..Len(lastCall'.io) : lastCall'.io[i].ev \in {"exec", "write_state"}
          /\ (Executions(lastCall'.io) # <<>> /\ ~FailedExec(lastCall'.io))
                => WroteState(lastCall'.io)
          /\ lastCall'.result.ok =>
                /\ Range(lastCall'.result.val) = PendingSet(lastCall'.applied_before)
                /\ LoadedApplied' = lastCall'.applied_before \o lastCall'.result.val
                /\ \A target \in InitialTargets, f \in Faults,
                      keys \in KeyOrders(LoadedMigrations) :
                      apply_migrations(FALSE, TRUE, keys, migration_dir,
                                       [target_file |-> target, state_file |-> state_file',
                                        backup_dir |-> backup_dir'],
                                       clock, f[1], f[2])
                         = Outcome(Ok(<<>>), target, state_file', backup_dir', <<>>)]_vars

\* a runner without a target file applied two migrations: there is no target
\* file and no backup, and both are recorded
C35_Witness ==
    /\ lastCall.kind = "apply" /\ ~lastCall.dry_run /\ lastCall.result.ok
    /\ ~has_target
    /\ Len(lastCall.result.val) = 2
    /\ LoadedApplied = lastCall.result.val
    /\ target_file = None /\ backup_dir = None

(***************************************************************************)
(* Rollbacks over applied lists that name migrations whose file is gone or *)
(* whose down operation has an empty id: directories of m0, m1 and m2      *)
(* without dependencies, and every applied list of at most MaxBatch ids    *)
(***************************************************************************)
VerifyDirs == UNION {DirsOf(ids, 0) : ids \in SUBSET {"m0", "m1", "m2"}}

VerifyStates ==
    {Json([applied_migrations |-> list, last_migration |-> Last(list)]) :
        list \in {b \in UNION {[1..n -> {"m0", "m1", "m2"}] : n \in 0..MaxBatch} :
                     NoDuplicates(b)}}

InitVerify ==
    /\ migration_dir \in VerifyDirs
    /\ has_target \in BOOLEAN
    /\ target_file \in IF has_target THEN InitialTargets ELSE {None}
    /\ state_file \in {Some(st) : st \in VerifyStates}
    /\ backup_dir = None
    /\ clock = 0
    /\ lastCall = NoCall
    /\ lastOperation = NoOperation
    /\ invocations = NoInvocations

NextVerify == RollbackDryRun \/ Rollback

SpecVerify == InitVerify /\ [][NextVerify]_vars

\* the id has no loaded migration, or a down operation of its migration
\* fails validate_operation
FailsVerification(id) ==
    \/ id \notin DOMAIN LoadedMigrations
    \/ ~ValidateEach(LoadedMigrations[id].down).ok

\* C36: a rollback that selects an id without a loaded migration, or a
\* migration with a down operation that validate_operation rejects, fails
\* with the error of the verification, executes nothing and leaves the
\* target, the state file and the backups as they were
C36_FailedVerificationHasNoSideEffect ==
    [][(/\ lastCall'.kind = "rollback"
        /\ load_migrations(migration_dir).ok
        /\ \E id \in Range(Selected(lastCall')) : FailsVerification(id))
       => /\ ~lastCall'.result.ok
          /\ lastCall'.result.err \in
                {"Migration not found", "no down operations - rollback not possible",
                 "RemoveFeature operation requires non-empty id"}
          /\ lastCall'.io = <<>>
          /\ FilesUnchanged]_vars

\* a rollback of two ids on an existing target file failed: the first one
\* selected has no loaded migration, the second a down operation with an
\* empty id
C36_Witness ==
    /\ lastCall.kind = "rollback" /\ ~lastCall.dry_run /\ ~lastCall.result.ok
    /\ lastCall.result.err = "Migration not found"
    /\ Len(Selected(lastCall)) = 2
    /\ Selected(lastCall)[1] \notin DOMAIN LoadedMigrations
    /\ Selected(lastCall)[2] = "m0" /\ "m0" \in DOMAIN LoadedMigrations
    /\ has_target /\ IsSome(target_file) /\ backup_dir = None

\* C37: AddFeature never fails; it appends one feature, which has the given
\* id, title and description and one placeholder scenario for each given
\* scenario title, in their order, none when there are no titles, and it
\* leaves the features that were there, those with the same id included,
\* and the rest of the document as they were
C37_AddFeatureAppendsOneFeature ==
    ExecutedOperation("add_feature") =>
       LET operation == lastOperation.operation
           before == lastOperation.document
           after == lastOperation.after
           titles == IF IsSome(operation.scenarios) THEN Unwrap(operation.scenarios) ELSE <<>>
           feature == after.features[Len(after.features)]
       IN /\ lastOperation.result = Ok(after)
          /\ Len(after.features) = Len(before.features) + 1
          /\ SubSeq(after.features, 1, Len(before.features)) = before.features
          /\ [after EXCEPT !.features = before.features] = before
          /\ feature.id = operation.id
          /\ feature.title = operation.title
          /\ feature.description = operation.description
          /\ Len(feature.scenarios) = Len(titles)
          /\ \A k \in 1..Len(titles) :
                /\ feature.scenarios[k].title = titles[k]
                /\ feature.scenarios[k].given = <<"System is ready">>
                /\ feature.scenarios[k].when = <<"User performs action">>
                /\ feature.scenarios[k].then = <<"Expected outcome occurs">>

\* AddFeature with two scenario titles and a description was executed on a
\* document that held the id twice already
C37_Witness ==
    /\ ExecutedOperation("add_feature")
    /\ lastOperation.runs = 1
    /\ CountId(lastOperation.document.features, lastOperation.operation.id) = 2
    /\ CountId(lastOperation.after.features, lastOperation.operation.id) = 3
    /\ IsSome(lastOperation.operation.description)
    /\ Len(lastOperation.after.features[4].scenarios) = 2

\* the traversal resolve_migration_dependencies makes for the pending ids of
\* an applied list, taken in the order keys
TraversalOf(keys, applied) ==
    VisitEach(SelectSeq(keys, LAMBDA id : ~Contains(applied, id)), LoadedMigrations,
              NewTraversal)

\* the ids a traversal can meet: the loaded ones and the ones they name
KnownIds == DOMAIN LoadedMigrations \cup UNION {DeclaredDeps(id, LoadedMigrations) : id \in DOMAIN LoadedMigrations}

\* C38: dependency resolution ends for every loaded migration set, with an
\* order when no cycle is reachable from a pending migration and with the
\* circular dependency error otherwise, and whatever the iteration order it
\* traverses the dependencies of each migration id at most once
C38_ResolutionExpandsEachIdOnce ==
    (IsPlanning(lastCall) /\ load_migrations(migration_dir).ok) =>
       /\ \/ lastCall.result.ok
          \/ lastCall.result.err = "Circular dependency"
       /\ lastCall.result.ok <=>
             ~CycleReachableFrom(PendingSet(lastCall.applied_before), LoadedMigrations)
       /\ \A keys \in KeyOrders(LoadedMigrations) :
             LET t == TraversalOf(keys, lastCall.applied_before)
             IN /\ NoDuplicates(t.expanded)
                /\ Range(t.expanded) \subseteq KnownIds
                /\ Len(t.expanded) <= Cardinality(KnownIds)
                /\ IsSome(t.err) <=> ~lastCall.result.ok
                /\ ~IsSome(t.err) =>
                      /\ t.visiting = {}
                      /\ Range(t.expanded) = t.visited
                      /\ Range(t.resolved) = t.visited

\* an order was planned over two pending migrations, one depending on the
\* other, so that the traversal met a visited id again
C38_Witness ==
    /\ IsPlanning(lastCall) /\ lastCall.result.ok
    /\ Len(PlannedOrder(lastCall)) = 2
    /\ \E keys \in KeyOrders(LoadedMigrations) :
          /\ keys[1] \in DeclaredDeps(keys[2], LoadedMigrations)
          /\ keys[1] \in PendingSet(lastCall.applied_before)
          /\ keys[2] \in PendingSet(lastCall.applied_before)
          /\ Len(TraversalOf(keys, lastCall.applied_before).expanded) = 2

====
